---- MODULE Spec2Model ----
(***************************************************************************)
(* Complaint orchestration engine of CustomerAII: the adaptive follow-up   *)
(* dialogue (ConversationManager / FollowupHandler / ConfidenceEvaluator), *)
(* the facade that composes it with the outbound call                      *)
(* (ComplaintResolutionSystem.processUnifiedComplaint, the HTTP endpoints)  *)
(* and the call retry policy (CallManager); the call monitor of the        *)
(* integrated flow (BlandAICallManager), the fallback episode              *)
(* (FallbackHandler over TwilioController), the email/call fan-out of      *)
(* POST /execute-both, the transcript heuristics, IVR navigation            *)
(* (IVRNavigator) and the command-line flow (ComplaintProcessor).          *)
(*                                                                         *)
(* One complaint document is modelled.  In Spec, SpecAnswer, SpecCall and  *)
(* SpecRetry every handler is one atomic action; SpecMonitor,              *)
(* SpecFallback, SpecConcurrent, SpecFanout, SpecIvr and SpecProcessor     *)
(* split a handler at its awaits, where other invocations interleave or    *)
(* the handler waits for input.  The replies of the LLM, the telephony     *)
(* provider and the user are inputs drawn from small sets.  Confidence     *)
(* values are counted in tenths (5 stands for 0.5), text is a tuple of     *)
(* one-character strings.  The persistence collaborator is taken to be     *)
(* reliable unless an action says otherwise.                               *)
(***************************************************************************)
EXTENDS Integers, Sequences, FiniteSets, TLC

VARIABLES doc, originalContext, ret, monitor, fallback, flows, probe, fanout,
          callLog, processor

\* the complaint document and the last handler's return
dialogueVars == <<doc, originalContext, ret>>

\* the call monitor, the fallback episodes, the concurrent request flows, the
\* text functions' inputs and results, the email/call fan-out, the dials made
\* for the complaint and the command-line complaint processor
auxVars == <<monitor, fallback, flows, probe, fanout, callLog, processor>>

vars ==
  <<doc, originalContext, ret, monitor, fallback, flows, probe, fanout,
    callLog, processor>>

----------------------------------------------------------------------------
(* Program constants *)

\* followupQuestions.config.ts: maxQuestions
MaxQuestions == 4

\* callOrchestration.config.ts: maxRetries (MAX_RETRIES default)
MaxRetries == 2

\* `complaintData.finalConfidence || 0.5`, in tenths
DefaultConfidence == 5

\* Math.min(1.0, ...) in tenths
ConfidenceCap == 10

\* absent field of the stored document
Undefined == -1

----------------------------------------------------------------------------
(* Text: tuples of one-character strings *)

Whitespace == {" ", "\n"}

LowerCase == <<"a","b","c","d","e","f","g","h","i","j","k","l","m",
               "n","o","p","q","r","s","t","u","v","w","x","y","z">>

UpperCase == <<"A","B","C","D","E","F","G","H","I","J","K","L","M",
               "N","O","P","Q","R","S","T","U","V","W","X","Y","Z">>

RECURSIVE TrimStart(_)
TrimStart(s) ==
  IF s # <<>> /\ Head(s) \in Whitespace THEN TrimStart(Tail(s)) ELSE s

RECURSIVE TrimEnd(_)
TrimEnd(s) ==
  IF s # <<>> /\ s[Len(s)] \in Whitespace
    THEN TrimEnd(SubSeq(s, 1, Len(s) - 1))
    ELSE s

\* String.prototype.trim
Trim(s) == TrimEnd(TrimStart(s))

ToUpperChar(c) ==
  IF \E i \in 1..26 : LowerCase[i] = c
    THEN UpperCase[CHOOSE i \in 1..26 : LowerCase[i] = c]
    ELSE c

\* String.prototype.toUpperCase
ToUpperCase(s) == [i \in 1..Len(s) |-> ToUpperChar(s[i])]

ToLowerChar(c) ==
  IF \E i \in 1..26 : UpperCase[i] = c
    THEN LowerCase[CHOOSE i \in 1..26 : UpperCase[i] = c]
    ELSE c

\* String.prototype.toLowerCase
ToLowerCase(s) == [i \in 1..Len(s) |-> ToLowerChar(s[i])]

\* String.prototype.includes
Includes(s, sub) ==
  \E i \in 0..(Len(s) - Len(sub)) : SubSeq(s, i + 1, i + Len(sub)) = sub

\* String.prototype.startsWith
StartsWith(s, pre) == Len(s) >= Len(pre) /\ SubSeq(s, 1, Len(pre)) = pre

\* the pending test with its negation dropped
IsPendingMissingNot(turn) == turn.answer # <<>> \/ Trim(turn.answer) = <<>>

\* `!turn.answer || turn.answer.trim() === ''` of ConversationManager
IsPending(turn) == turn.answer = <<>> \/ Trim(turn.answer) = <<>>

\* `turn.answer && turn.answer.trim() !== ''` of ConversationManager
IsAnswered(turn) == turn.answer # <<>> /\ Trim(turn.answer) # <<>>

\* `!turn.answer || turn.answer === ''` of processUnifiedComplaint
FacadePending(turn) == turn.answer = <<>>

\* {...a, ...b}: keys of b win
Merge(a, b) ==
  [k \in (DOMAIN a) \cup (DOMAIN b) |-> IF k \in DOMAIN b THEN b[k] ELSE a[k]]

EmptyMap == [k \in {} |-> ""]

----------------------------------------------------------------------------
(* Literal texts of the source *)

ContinueWord ==
  <<"C","O","N","T","I","N","U","E">>

DefaultFollowupText ==
  <<"I"," ","a","p","o","l","o","g","i","z","e",","," ","b","u","t"," ","I",
    " ","n","e","e","d"," ","m","o","r","e"," ","i","n","f","o","r","m","a",
    "t","i","o","n"," ","t","o"," ","h","e","l","p"," ","y","o","u"," ","b",
    "e","t","t","e","r","."," ","C","o","u","l","d"," ","y","o","u"," ","p",
    "l","e","a","s","e"," ","p","r","o","v","i","d","e"," ","m","o","r","e",
    " ","d","e","t","a","i","l","s"," ","a","b","o","u","t"," ","y","o","u",
    "r"," ","c","o","m","p","l","a","i","n","t","?">>

FallbackQuestionFirst ==
  <<"T","o"," ","h","e","l","p"," ","r","e","s","o","l","v","e"," ","y","o",
    "u","r"," ","i","s","s","u","e"," ","q","u","i","c","k","l","y",","," ",
    "c","o","u","l","d"," ","y","o","u"," ","t","e","l","l"," ","m","e"," ",
    "w","h","e","n"," ","t","h","i","s"," ","p","r","o","b","l","e","m"," ",
    "f","i","r","s","t"," ","o","c","c","u","r","r","e","d","?">>

FallbackQuestionSecond ==
  <<"W","h","a","t"," ","s","p","e","c","i","f","i","c"," ","o","u","t","c",
    "o","m","e"," ","o","r"," ","r","e","s","o","l","u","t","i","o","n"," ",
    "a","r","e"," ","y","o","u"," ","h","o","p","i","n","g"," ","f","o","r",
    " ","w","i","t","h"," ","t","h","i","s"," ","i","s","s","u","e","?">>

FallbackQuestionLast ==
  <<"I","s"," ","t","h","e","r","e"," ","a","n","y"," ","o","t","h","e","r",
    " ","i","m","p","o","r","t","a","n","t"," ","i","n","f","o","r","m","a",
    "t","i","o","n"," ","y","o","u"," ","t","h","i","n","k"," ","w","o","u",
    "l","d"," ","h","e","l","p"," ","u","s"," ","r","e","s","o","l","v","e",
    " ","t","h","i","s"," ","i","s","s","u","e","?">>

FallbackQuestionOther ==
  <<"C","o","u","l","d"," ","y","o","u"," ","p","r","o","v","i","d","e"," ",
    "a","n","y"," ","r","e","f","e","r","e","n","c","e"," ","n","u","m","b",
    "e","r","s",","," ","a","c","c","o","u","n","t"," ","d","e","t","a","i",
    "l","s",","," ","o","r"," ","o","t","h","e","r"," ","s","p","e","c","i",
    "f","i","c"," ","i","n","f","o","r","m","a","t","i","o","n"," ","r","e",
    "l","a","t","e","d"," ","t","o"," ","t","h","i","s"," ","p","r","o","b",
    "l","e","m","?">>

VagueMoreDetails ==
  <<"m","o","r","e"," ","d","e","t","a","i","l","s">>

VagueClarify ==
  <<"c","l","a","r","i","f","y">>

VagueCanYouTellMe ==
  <<"c","a","n"," ","y","o","u"," ","t","e","l","l"," ","m","e">>

VagueAdditionalInformation ==
  <<"a","d","d","i","t","i","o","n","a","l"," ","i","n","f","o","r","m","a",
    "t","i","o","n">>

PrefixQuestion ==
  <<"q","u","e","s","t","i","o","n",":">>

PrefixQ ==
  <<"q",":">>

PrefixAnswer ==
  <<"a","n","s","w","e","r",":">>

TextContinueLower ==
  <<" ","c","o","n","t","i","n","u","e","\n">>

TextStop ==
  <<"S","T","O","P">>

TextContinueDot ==
  <<"C","O","N","T","I","N","U","E",".">>

TextGoodQuestion ==
  <<"W","h","e","n"," ","d","i","d"," ","t","h","i","s"," ","h","a","p","p",
    "e","n","?">>

TextShortQuestion ==
  <<"Q",":"," ","W","h","y","?">>

TextVagueQuestion ==
  <<"C","a","n"," ","y","o","u"," ","c","l","a","r","i","f","y"," ","w","h",
    "a","t"," ","h","a","p","p","e","n","e","d","?">>

TextPreambleQuestion ==
  <<"S","u","r","e",","," ","h","e","r","e"," ","i","t"," ","i","s","\n",
    "1","."," ","W","h","a","t"," ","a","m","o","u","n","t"," ","w","a","s",
    " ","c","h","a","r","g","e","d","?">>

----------------------------------------------------------------------------
(* OpenAIClient: a reply of the chat-completion service is                 *)
(* [ok |-> the request succeeded, content |-> message.content]             *)

\* OpenAIClient.generateFollowupQuestions: throws when the request fails,
\* substitutes the apology text for an empty content
GenerateFollowupQuestions(reply) ==
  IF ~reply.ok
    THEN [throws |-> TRUE, value |-> <<>>]
    ELSE [throws |-> FALSE,
          value |-> IF reply.content = <<>> THEN DefaultFollowupText
                                             ELSE reply.content]

\* Lexical tokens of an extraction reply
LBrace == [t |-> "{", k |-> "", v |-> ""]
RBrace == [t |-> "}", k |-> "", v |-> ""]
Prose == [t |-> "text", k |-> "", v |-> ""]
Pair(key, val) == [t |-> "pair", k |-> key, v |-> val]

EmptyObjectText == <<LBrace, RBrace>>

\* OpenAIClient.extractInformation: never throws, "{}" on failure or on an
\* empty content
ExtractInformation(reply) ==
  IF ~reply.ok \/ reply.content = <<>> THEN EmptyObjectText ELSE reply.content

\* response.match(/\{[\s\S]*?\}/): the first "{" up to the first "}" after it
JsonMatch(tokens) ==
  IF \E i \in 1..Len(tokens) : \E j \in (i + 1)..Len(tokens) :
       tokens[i] = LBrace /\ tokens[j] = RBrace
    THEN LET i == CHOOSE a \in 1..Len(tokens) :
                    /\ tokens[a] = LBrace
                    /\ \E b \in (a + 1)..Len(tokens) : tokens[b] = RBrace
                    /\ \A c \in 1..(a - 1) :
                         ~(tokens[c] = LBrace /\
                           \E b \in (c + 1)..Len(tokens) : tokens[b] = RBrace)
             j == CHOOSE b \in (i + 1)..Len(tokens) :
                    /\ tokens[b] = RBrace
                    /\ \A c \in (i + 1)..(b - 1) : tokens[c] # RBrace
         IN [found |-> TRUE, text |-> SubSeq(tokens, i, j)]
    ELSE [found |-> FALSE, text |-> <<>>]

\* JSON.parse of an object text: throws unless the text is "{" pairs "}"
JsonParse(tokens) ==
  IF /\ Len(tokens) >= 2
     /\ tokens[1] = LBrace
     /\ tokens[Len(tokens)] = RBrace
     /\ \A i \in 2..(Len(tokens) - 1) : tokens[i].t = "pair"
    THEN [throws |-> FALSE,
          value |-> [key \in {tokens[i].k : i \in 2..(Len(tokens) - 1)} |->
                       LET last == CHOOSE i \in 2..(Len(tokens) - 1) :
                                     /\ tokens[i].k = key
                                     /\ \A j \in (i + 1)..(Len(tokens) - 1) :
                                          tokens[j].k # key
                       IN tokens[last].v]]
    ELSE [throws |-> TRUE, value |-> EmptyMap]

----------------------------------------------------------------------------
(* FollowupHandler *)

\* FollowupHandler.extractInformationFromText (used by preAnalyzeComplaint)
ExtractInformationFromText(reply) ==
  LET Parsed(parsed) == IF parsed.throws THEN EmptyMap ELSE parsed.value
      Matched(response, m) ==
        Parsed(JsonParse(IF m.found THEN m.text ELSE response))
      Response(response) == Matched(response, JsonMatch(response))
  IN Response(ExtractInformation(reply))

\* FollowupHandler.preAnalyzeComplaint: the merged extractedFields
PreAnalyzeComplaint(fields, reply) ==
  Merge(fields, ExtractInformationFromText(reply))

\* FollowupHandler.extractInformationFromAnswer
ExtractInformationFromAnswer(reply) ==
  LET Parsed(parsed) == IF parsed.throws THEN EmptyMap ELSE parsed.value
      Matched(m) == Parsed(JsonParse(IF m.found THEN m.text ELSE EmptyObjectText))
  IN Matched(JsonMatch(ExtractInformation(reply)))

\* llmShouldContinueAsking answering "continue" when the request fails, as
\* OpenAIClient.needsMoreInformation does
LlmShouldContinueAskingFailOpen(reply) ==
  LET response == GenerateFollowupQuestions(reply)
  IN IF response.throws
       THEN TRUE
       ELSE ToUpperCase(Trim(response.value)) = ContinueWord

\* FollowupHandler.llmShouldContinueAsking: a failed request is "stop"
LlmShouldContinueAsking(reply) ==
  LET response == GenerateFollowupQuestions(reply)
  IN IF response.throws
       THEN FALSE
       ELSE ToUpperCase(Trim(response.value)) = ContinueWord

\* FollowupHandler.shouldAskMoreQuestions (llmShouldContinueAsking never
\* throws, so the handler's own catch branch is not taken)
ShouldAskMoreQuestions(history, reply) ==
  IF Len(history) >= MaxQuestions
    THEN FALSE
    ELSE LlmShouldContinueAsking(reply)

\* String.prototype.split on one separator character
RECURSIVE Split(_, _)
Split(s, sep) ==
  IF \E i \in 1..Len(s) : s[i] = sep
    THEN LET i == CHOOSE a \in 1..Len(s) :
                    s[a] = sep /\ \A b \in 1..(a - 1) : s[b] # sep
         IN <<SubSeq(s, 1, i - 1)>> \o Split(SubSeq(s, i + 1, Len(s)), sep)
    ELSE <<s>>

Digits == {"0","1","2","3","4","5","6","7","8","9"}

\* length of the leading run of digits
RECURSIVE DigitRun(_)
DigitRun(s) ==
  IF s # <<>> /\ Head(s) \in Digits THEN 1 + DigitRun(Tail(s)) ELSE 0

\* length matched by /^(Question:|Q:|Answer:|\d+\.|\-|\*)/i
PrefixLen(s) ==
  LET lower == ToLowerCase(s)
      d == DigitRun(s)
  IN IF StartsWith(lower, PrefixQuestion) THEN Len(PrefixQuestion)
     ELSE IF StartsWith(lower, PrefixQ) THEN Len(PrefixQ)
     ELSE IF StartsWith(lower, PrefixAnswer) THEN Len(PrefixAnswer)
     ELSE IF d > 0 /\ Len(s) > d /\ s[d + 1] = "." THEN d + 1
     ELSE IF StartsWith(s, <<"-">>) THEN 1
     ELSE IF StartsWith(s, <<"*">>) THEN 1
     ELSE 0

\* question.replace(/^(...)\s*/i, '').trim()
StripPrefix(s) ==
  LET Strip(n) == Trim(IF n = 0 THEN s ELSE TrimStart(SubSeq(s, n + 1, Len(s))))
  IN Strip(PrefixLen(s))

\* lower bound of the length check of llmGenerateIntelligentQuestion
MinQuestionLength == 10

\* upper bound of the length check of llmGenerateIntelligentQuestion
MaxQuestionLength == 150

VaguePhrases ==
  {VagueMoreDetails, VagueClarify, VagueCanYouTellMe,
   VagueAdditionalInformation}

IsVague(question) ==
  \E phrase \in VaguePhrases : Includes(ToLowerCase(question), phrase)

HasContent(line) == Trim(line) # <<>>

HasQuestionMark(line) == Includes(line, <<"?">>)

\* FollowupHandler.llmGenerateIntelligentQuestion
LlmGenerateIntelligentQuestion(reply, isLastQuestion) ==
  LET Validate(response, question) ==
        IF response.throws THEN [throws |-> TRUE, value |-> <<>>]
        ELSE IF Len(question) < MinQuestionLength
                \/ Len(question) > MaxQuestionLength
          THEN [throws |-> TRUE, value |-> <<>>]
        ELSE IF IsVague(question) /\ ~isLastQuestion
          THEN [throws |-> TRUE, value |-> <<>>]
        ELSE [throws |-> FALSE, value |-> question]
      Pick(response, lines, marked) ==
        Validate(response,
                 StripPrefix(IF marked # <<>> THEN marked[1]
                             ELSE IF lines # <<>> /\ lines[1] # <<>>
                               THEN lines[1]
                             ELSE response.value))
      Find(response, lines) ==
        Pick(response, lines, SelectSeq(lines, HasQuestionMark))
      Lines(response) ==
        Find(response, SelectSeq(Split(response.value, "\n"), HasContent))
  IN Lines(GenerateFollowupQuestions(reply))

\* FollowupHandler.getFallbackQuestion
GetFallbackQuestion(history, isLastQuestion) ==
  IF Len(history) = 0 THEN FallbackQuestionFirst
  ELSE IF Len(history) = 1 THEN FallbackQuestionSecond
  ELSE IF isLastQuestion THEN FallbackQuestionLast
  ELSE FallbackQuestionOther

\* FollowupHandler.generateFollowupQuestion
GenerateFollowupQuestion(history, reply) ==
  LET questionsRemaining == MaxQuestions - Len(history)
      isLastQuestion == questionsRemaining = 1
      Result(generated) ==
        IF questionsRemaining <= 0 THEN <<>>
        ELSE IF generated.throws
          THEN GetFallbackQuestion(history, isLastQuestion)
        ELSE generated.value
  IN Result(LlmGenerateIntelligentQuestion(reply, isLastQuestion))

----------------------------------------------------------------------------
(* ConfidenceEvaluator *)

RECURSIVE SumDeltas(_)
SumDeltas(turns) ==
  IF turns = <<>> THEN 0
  ELSE Head(turns).confidenceDelta + SumDeltas(Tail(turns))

Min(a, b) == IF a <= b THEN a ELSE b

\* calculateOverallConfidence without Math.min
CalculateOverallConfidenceUnclamped(initialConfidence, conversationHistory) ==
  initialConfidence + SumDeltas(conversationHistory)

\* ConfidenceEvaluator.calculateOverallConfidence
CalculateOverallConfidence(initialConfidence, conversationHistory) ==
  Min(ConfidenceCap, initialConfidence + SumDeltas(conversationHistory))

----------------------------------------------------------------------------
(* The stored complaint document and the value a handler returns *)

\* ConversationTurn; the id is the position at which the turn was appended
\* (uuidv4 in the source: fresh, never reused)
NewTurn(id, question) ==
  [id |-> id, question |-> question, answer |-> <<>>,
   extractedInfo |-> EmptyMap, confidenceDelta |-> 0]

\* contactDetails absent from the document
NoContactDetails == [phoneNumbers |-> <<>>, emails |-> <<>>]

\* no document under the complaint id
NoDocument ==
  [exists |-> FALSE, conversationHistory |-> <<>>, extractedFields |-> EmptyMap,
   finalConfidence |-> Undefined, questionFlowCompleted |-> FALSE,
   questionsAsked |-> 0, questionsAnswered |-> 0, retryCount |-> 0,
   status |-> "none", nextSteps |-> <<>>, callStatus |-> "none",
   contactDetails |-> NoContactDetails]

\* db.collection('complaints').add({...}) of processUnifiedComplaint; fields
\* the call does not set read as absent (falsy)
CreatedDocument ==
  [NoDocument EXCEPT !.exists = TRUE, !.status = "processing"]

\* the reply to a request that was not made or that failed
NoReply == [ok |-> FALSE, content |-> <<>>]

\* the reply to a request that succeeded
Reply(content) == [ok |-> TRUE, content |-> content]

\* what the last handler returned (or threw), with the inputs it was given
NoReturn ==
  [op |-> "none", error |-> "", questionId |-> 0, answer |-> <<>>,
   extractedInfo |-> EmptyMap, decision |-> "none", appended |-> FALSE,
   conversationHistory |-> <<>>, finalConfidence |-> Undefined,
   complete |-> FALSE, callPlaced |-> FALSE, pendingAtCall |-> 0,
   status |-> "none", nextSteps |-> <<>>, dialAttempts |-> 0,
   retryCountBefore |-> 0, dialNeverConnects |-> FALSE,
   emailStatus |-> "none", policyReply |-> NoReply, extractReply |-> NoReply]

----------------------------------------------------------------------------
(* ConversationManager *)

\* ConversationManager.askQuestions.  context is the ComplaintContext passed
\* in; the three replies are those of the pre-analysis, continuation and
\* question-generation requests (each used only if the request is made).
AskQuestions(d, context, preReply, policyReply, questionReply) ==
  LET history == d.conversationHistory
      merged == Merge(context.extractedFeatures, d.extractedFields)
      fields == IF history = <<>> THEN PreAnalyzeComplaint(merged, preReply)
                                  ELSE merged
      pendingQuestions == SelectSeq(history, IsPending)
      answeredQuestions == SelectSeq(history, IsAnswered)
      questionCount == Len(answeredQuestions)
      consulted == questionCount < MaxQuestions
      Store(shouldContinue, question) ==
        LET append == shouldContinue /\ Trim(question) # <<>>
            newHistory ==
              IF append
                THEN Append(history, NewTurn(Len(history) + 1, question))
                ELSE history
            finalConfidence ==
              CalculateOverallConfidence(context.confidence,
                                         SelectSeq(newHistory, IsAnswered))
            questionFlowCompleted ==
              ~\E i \in 1..Len(newHistory) : IsPending(newHistory[i])
        IN [threw |-> FALSE,
            doc |-> [d EXCEPT !.conversationHistory = newHistory,
                              !.extractedFields = fields,
                              !.finalConfidence = finalConfidence,
                              !.questionFlowCompleted = questionFlowCompleted,
                              !.questionsAsked = Len(newHistory),
                              !.questionsAnswered = questionCount],
            conversationHistory |-> newHistory,
            finalConfidence |-> finalConfidence,
            decision |-> IF ~consulted THEN "none"
                         ELSE IF shouldContinue THEN "continue" ELSE "stop",
            appended |-> append,
            complete |-> questionFlowCompleted]
  IN IF ~d.exists
       THEN [threw |-> TRUE, doc |-> d, conversationHistory |-> <<>>,
             finalConfidence |-> Undefined, decision |-> "none",
             appended |-> FALSE, complete |-> FALSE]
     ELSE IF Len(pendingQuestions) > 0
       THEN [threw |-> FALSE, doc |-> d, conversationHistory |-> history,
             finalConfidence |->
               CalculateOverallConfidence(context.confidence, history),
             decision |-> "none", appended |-> FALSE, complete |-> FALSE]
     ELSE Store(consulted /\ ShouldAskMoreQuestions(history, policyReply),
                GenerateFollowupQuestion(history, questionReply))

\* `complaintData.finalConfidence || 0.5`
ConfidenceOrDefault(c) == IF c = Undefined \/ c = 0 THEN DefaultConfidence ELSE c

\* processAnswer appending an answered turn when no turn has the id, as
\* FollowupHandler.processAnswer does
ProcessAnswerAppending(d, questionId, answer, extractReply) ==
  LET history == d.conversationHistory
      found == \E i \in 1..Len(history) : history[i].id = questionId
      questionIndex == CHOOSE i \in 1..Len(history) :
                         /\ history[i].id = questionId
                         /\ \A j \in 1..(i - 1) : history[j].id # questionId
      known == IF found THEN history
               ELSE Append(history, NewTurn(Len(history) + 1, <<>>))
      at == IF found THEN questionIndex ELSE Len(known)
      Store(extractedInfo) ==
        LET newHistory ==
              [known EXCEPT ![at] =
                 [@ EXCEPT !.answer = answer,
                           !.extractedInfo = extractedInfo,
                           !.confidenceDelta =
                              IF DOMAIN extractedInfo # {} THEN 2 ELSE 1]]
            updatedFields == Merge(d.extractedFields, extractedInfo)
            finalConfidence ==
              CalculateOverallConfidence(ConfidenceOrDefault(d.finalConfidence),
                                         SelectSeq(newHistory, IsAnswered))
            hasUnansweredQuestions ==
              \E i \in 1..Len(newHistory) : IsPending(newHistory[i])
        IN [threw |-> FALSE, error |-> "",
            doc |-> [d EXCEPT !.conversationHistory = newHistory,
                              !.extractedFields = updatedFields,
                              !.finalConfidence = finalConfidence,
                              !.questionFlowCompleted = ~hasUnansweredQuestions,
                              !.questionsAnswered =
                                 Len(SelectSeq(newHistory, IsAnswered))],
            conversationHistory |-> newHistory,
            extractedInfo |-> extractedInfo,
            finalConfidence |-> finalConfidence,
            complete |-> ~hasUnansweredQuestions]
  IN IF ~d.exists
       THEN [threw |-> TRUE, error |-> "DocumentNotFound", doc |-> d,
             conversationHistory |-> <<>>, extractedInfo |-> EmptyMap,
             finalConfidence |-> Undefined, complete |-> FALSE]
     ELSE Store(ExtractInformationFromAnswer(extractReply))

\* processAnswer returning normally, without a write, when no turn has the id
ProcessAnswerSilent(d, questionId, answer, extractReply) ==
  LET history == d.conversationHistory
      found == \E i \in 1..Len(history) : history[i].id = questionId
      questionIndex == CHOOSE i \in 1..Len(history) :
                         /\ history[i].id = questionId
                         /\ \A j \in 1..(i - 1) : history[j].id # questionId
      Store(extractedInfo) ==
        LET newHistory ==
              [history EXCEPT ![questionIndex] =
                 [@ EXCEPT !.answer = answer,
                           !.extractedInfo = extractedInfo,
                           !.confidenceDelta =
                              IF DOMAIN extractedInfo # {} THEN 2 ELSE 1]]
            updatedFields == Merge(d.extractedFields, extractedInfo)
            finalConfidence ==
              CalculateOverallConfidence(ConfidenceOrDefault(d.finalConfidence),
                                         SelectSeq(newHistory, IsAnswered))
            hasUnansweredQuestions ==
              \E i \in 1..Len(newHistory) : IsPending(newHistory[i])
        IN [threw |-> FALSE, error |-> "",
            doc |-> [d EXCEPT !.conversationHistory = newHistory,
                              !.extractedFields = updatedFields,
                              !.finalConfidence = finalConfidence,
                              !.questionFlowCompleted = ~hasUnansweredQuestions,
                              !.questionsAnswered =
                                 Len(SelectSeq(newHistory, IsAnswered))],
            conversationHistory |-> newHistory,
            extractedInfo |-> extractedInfo,
            finalConfidence |-> finalConfidence,
            complete |-> ~hasUnansweredQuestions]
  IN IF ~d.exists
       THEN [threw |-> TRUE, error |-> "DocumentNotFound", doc |-> d,
             conversationHistory |-> <<>>, extractedInfo |-> EmptyMap,
             finalConfidence |-> Undefined, complete |-> FALSE]
     ELSE IF ~found
       THEN [threw |-> FALSE, error |-> "", doc |-> d,
             conversationHistory |-> history, extractedInfo |-> EmptyMap,
             finalConfidence |-> ConfidenceOrDefault(d.finalConfidence),
             complete |-> FALSE]
     ELSE Store(ExtractInformationFromAnswer(extractReply))

\* processAnswer storing the trimmed answer
ProcessAnswerTrimmed(d, questionId, answer, extractReply) ==
  LET history == d.conversationHistory
      found == \E i \in 1..Len(history) : history[i].id = questionId
      questionIndex == CHOOSE i \in 1..Len(history) :
                         /\ history[i].id = questionId
                         /\ \A j \in 1..(i - 1) : history[j].id # questionId
      Store(extractedInfo) ==
        LET newHistory ==
              [history EXCEPT ![questionIndex] =
                 [@ EXCEPT !.answer = Trim(answer),
                           !.extractedInfo = extractedInfo,
                           !.confidenceDelta =
                              IF DOMAIN extractedInfo # {} THEN 2 ELSE 1]]
            updatedFields == Merge(d.extractedFields, extractedInfo)
            finalConfidence ==
              CalculateOverallConfidence(ConfidenceOrDefault(d.finalConfidence),
                                         SelectSeq(newHistory, IsAnswered))
            hasUnansweredQuestions ==
              \E i \in 1..Len(newHistory) : IsPending(newHistory[i])
        IN [threw |-> FALSE, error |-> "",
            doc |-> [d EXCEPT !.conversationHistory = newHistory,
                              !.extractedFields = updatedFields,
                              !.finalConfidence = finalConfidence,
                              !.questionFlowCompleted = ~hasUnansweredQuestions,
                              !.questionsAnswered =
                                 Len(SelectSeq(newHistory, IsAnswered))],
            conversationHistory |-> newHistory,
            extractedInfo |-> extractedInfo,
            finalConfidence |-> finalConfidence,
            complete |-> ~hasUnansweredQuestions]
  IN IF ~d.exists
       THEN [threw |-> TRUE, error |-> "DocumentNotFound", doc |-> d,
             conversationHistory |-> <<>>, extractedInfo |-> EmptyMap,
             finalConfidence |-> Undefined, complete |-> FALSE]
     ELSE IF ~found
       THEN [threw |-> TRUE, error |-> "QuestionNotFound", doc |-> d,
             conversationHistory |-> <<>>, extractedInfo |-> EmptyMap,
             finalConfidence |-> Undefined, complete |-> FALSE]
     ELSE Store(ExtractInformationFromAnswer(extractReply))

\* ConversationManager.processAnswer
ProcessAnswer(d, questionId, answer, extractReply) ==
  LET history == d.conversationHistory
      found == \E i \in 1..Len(history) : history[i].id = questionId
      questionIndex == CHOOSE i \in 1..Len(history) :
                         /\ history[i].id = questionId
                         /\ \A j \in 1..(i - 1) : history[j].id # questionId
      Store(extractedInfo) ==
        LET newHistory ==
              [history EXCEPT ![questionIndex] =
                 [@ EXCEPT !.answer = answer,
                           !.extractedInfo = extractedInfo,
                           !.confidenceDelta =
                              IF DOMAIN extractedInfo # {} THEN 2 ELSE 1]]
            updatedFields == Merge(d.extractedFields, extractedInfo)
            finalConfidence ==
              CalculateOverallConfidence(ConfidenceOrDefault(d.finalConfidence),
                                         SelectSeq(newHistory, IsAnswered))
            hasUnansweredQuestions ==
              \E i \in 1..Len(newHistory) : IsPending(newHistory[i])
        IN [threw |-> FALSE, error |-> "",
            doc |-> [d EXCEPT !.conversationHistory = newHistory,
                              !.extractedFields = updatedFields,
                              !.finalConfidence = finalConfidence,
                              !.questionFlowCompleted = ~hasUnansweredQuestions,
                              !.questionsAnswered =
                                 Len(SelectSeq(newHistory, IsAnswered))],
            conversationHistory |-> newHistory,
            extractedInfo |-> extractedInfo,
            finalConfidence |-> finalConfidence,
            complete |-> ~hasUnansweredQuestions]
  IN IF ~d.exists
       THEN [threw |-> TRUE, error |-> "DocumentNotFound", doc |-> d,
             conversationHistory |-> <<>>, extractedInfo |-> EmptyMap,
             finalConfidence |-> Undefined, complete |-> FALSE]
     ELSE IF ~found
       THEN [threw |-> TRUE, error |-> "QuestionNotFound", doc |-> d,
             conversationHistory |-> <<>>, extractedInfo |-> EmptyMap,
             finalConfidence |-> Undefined, complete |-> FALSE]
     ELSE Store(ExtractInformationFromAnswer(extractReply))

----------------------------------------------------------------------------
(* CallManager and BlandAIClient *)

\* the dial collaborator: attempt n connects iff firstConnect = n
\* (firstConnect = 0: it never connects)
DialConnects(firstConnect, attempt) == firstConnect # 0 /\ attempt >= firstConnect

\* CallManager.updateComplaintStatus (an update of a missing document throws
\* and is swallowed)
UpdateComplaintStatus(d, callResult) ==
  IF ~d.exists THEN d
  ELSE [d EXCEPT !.status = callResult.status,
                 !.nextSteps = callResult.nextSteps]

\* shouldRetryCall without the update that stores the incremented count
ShouldRetryCallNotStored(d) ==
  IF ~d.exists THEN [retry |-> FALSE, doc |-> d]
  ELSE IF d.retryCount >= MaxRetries THEN [retry |-> FALSE, doc |-> d]
  ELSE [retry |-> TRUE, doc |-> d]

\* shouldRetryCall comparing with > instead of >=
ShouldRetryCallOffByOne(d) ==
  IF ~d.exists THEN [retry |-> FALSE, doc |-> d]
  ELSE IF d.retryCount > MaxRetries THEN [retry |-> FALSE, doc |-> d]
  ELSE [retry |-> TRUE, doc |-> [d EXCEPT !.retryCount = @ + 1]]

\* CallManager.shouldRetryCall
ShouldRetryCall(d) ==
  IF ~d.exists THEN [retry |-> FALSE, doc |-> d]
  ELSE IF d.retryCount >= MaxRetries THEN [retry |-> FALSE, doc |-> d]
  ELSE [retry |-> TRUE, doc |-> [d EXCEPT !.retryCount = @ + 1]]

\* longest run of dial attempts of one placeComplaintCall that is followed
DialHorizon == 5

\* CallManager.placeComplaintCall, from dial attempt number `attempt` on
RECURSIVE PlaceComplaintCall(_, _, _)
PlaceComplaintCall(d, firstConnect, attempt) ==
  LET callResult == [status |-> "resolved",
                     nextSteps |-> <<"Awaiting customer service response">>]
      failureResult == [status |-> "failed", nextSteps |-> <<>>]
      again == ShouldRetryCall(d)
  IN IF DialConnects(firstConnect, attempt)
       THEN [doc |-> UpdateComplaintStatus(d, callResult),
             result |-> callResult, dialAttempts |-> attempt]
     ELSE IF again.retry /\ attempt < DialHorizon
       THEN PlaceComplaintCall(again.doc, firstConnect, attempt + 1)
     ELSE [doc |-> UpdateComplaintStatus(again.doc, failureResult),
           result |-> failureResult, dialAttempts |-> attempt]

\* no placeComplaintCall yet for the complaint
NoCalls == [invocations |-> 0, created |-> 0]

\* the log after one more placeComplaintCall that made dialAttempts calls of
\* twilioClient.calls.create
Dialled(log, dialAttempts) ==
  [invocations |-> log.invocations + 1, created |-> log.created + dialAttempts]

\* BlandAIClient.placeCall: the format check throws, every later failure is
\* returned as a failed CallResult
BlandPlaceCall(phoneNumber, httpOk) ==
  IF phoneNumber = <<>> \/ ~StartsWith(phoneNumber, <<"+">>)
    THEN [threw |-> TRUE, requested |-> FALSE,
          result |-> [status |-> "failed", nextSteps |-> <<>>]]
  ELSE IF httpOk
    THEN [threw |-> FALSE, requested |-> TRUE,
          result |-> [status |-> "resolved",
                      nextSteps |-> <<"Awaiting customer service response">>]]
  ELSE [threw |-> FALSE, requested |-> TRUE,
        result |-> [status |-> "failed", nextSteps |-> <<>>]]

IsDigit(c) == c \in Digits

\* toE164 of the API server
ToE164(phone) ==
  LET digits == SelectSeq(phone, IsDigit)
  IN IF phone = <<>> THEN <<>>
     ELSE IF StartsWith(phone, <<"+">>) THEN phone
     ELSE IF Len(digits) = 11 /\ StartsWith(digits, <<"1">>)
       THEN <<"+">> \o digits
     ELSE IF Len(digits) = 10 THEN <<"+", "1">> \o digits
     ELSE <<>>

----------------------------------------------------------------------------
(* ComplaintResolutionSystem.processUnifiedComplaint and the API server *)

\* number of turns the dialogue engine counts as pending
PendingCount(history) == Len(SelectSeq(history, IsPending))

\* number of turns the dialogue engine counts as answered
AnsweredCount(history) == Len(SelectSeq(history, IsAnswered))

\* processUnifiedComplaint, new-complaint branch: create the document, run
\* askQuestions, place the call when the facade sees no pending question
ProcessNewComplaint(context, preReply, policyReply, questionReply, firstConnect) ==
  LET Respond(asked) ==
        LET pendingQuestions == SelectSeq(asked.conversationHistory, FacadePending)
            hasMoreQuestions == Len(pendingQuestions) > 0
            Called(call) ==
              [doc |-> call.doc,
               ret |-> [NoReturn EXCEPT
                          !.op = "newComplaint",
                          !.policyReply = policyReply,
                          !.decision = asked.decision,
                          !.appended = asked.appended,
                          !.conversationHistory = asked.conversationHistory,
                          !.finalConfidence = asked.finalConfidence,
                          !.complete = TRUE,
                          !.callPlaced = TRUE,
                          !.pendingAtCall =
                             PendingCount(asked.doc.conversationHistory),
                          !.status = call.result.status,
                          !.nextSteps = call.result.nextSteps,
                          !.dialAttempts = call.dialAttempts,
                          !.retryCountBefore = asked.doc.retryCount,
                          !.dialNeverConnects = (firstConnect = 0)]]
        IN IF hasMoreQuestions
             THEN [doc |-> asked.doc,
                   ret |-> [NoReturn EXCEPT
                              !.op = "newComplaint",
                              !.policyReply = policyReply,
                              !.decision = asked.decision,
                              !.appended = asked.appended,
                              !.conversationHistory = asked.conversationHistory,
                              !.finalConfidence = asked.finalConfidence,
                              !.complete = FALSE,
                              !.status = "pending",
                              !.nextSteps = <<"Gathering information">>]]
           ELSE Called(PlaceComplaintCall(asked.doc, firstConnect, 1))
  IN Respond(AskQuestions(CreatedDocument, context, preReply, policyReply,
                          questionReply))

\* the follow-up branch placing the company call, as the new-complaint branch
\* does, when no question is pending
ProcessFollowupCalling(d, questionId, answer, extractReply, policyReply, questionReply) ==
  LET Respond(answered, asked) ==
        LET pendingQuestions == SelectSeq(asked.conversationHistory, FacadePending)
            hasMoreQuestions == Len(pendingQuestions) > 0
            call == PlaceComplaintCall(asked.doc, 1, 1)
        IN [doc |-> IF hasMoreQuestions THEN asked.doc ELSE call.doc,
            ret |-> [NoReturn EXCEPT
                       !.callPlaced = ~hasMoreQuestions,
                       !.dialAttempts = IF hasMoreQuestions THEN 0 ELSE 1,
                       !.op = "followup",
                       !.questionId = questionId,
                       !.answer = answer,
                       !.extractReply = extractReply,
                       !.extractedInfo = answered.extractedInfo,
                       !.policyReply = policyReply,
                       !.decision = asked.decision,
                       !.appended = asked.appended,
                       !.conversationHistory = asked.conversationHistory,
                       !.finalConfidence = asked.finalConfidence,
                       !.complete = ~hasMoreQuestions]]
      Continue(answered) ==
        IF answered.threw
          THEN [doc |-> d,
                ret |-> [NoReturn EXCEPT !.op = "followup",
                                         !.error = "CouldNotSaveAnswer",
                                         !.questionId = questionId]]
          ELSE Respond(answered,
                       AskQuestions(answered.doc,
                                    [confidence |->
                                       ConfidenceOrDefault(answered.doc.finalConfidence),
                                     extractedFeatures |->
                                       answered.doc.extractedFields],
                                    NoReply, policyReply, questionReply))
  IN Continue(ProcessAnswer(d, questionId, answer, extractReply))

\* processUnifiedComplaint, follow-up branch: processAnswer, then askQuestions
\* with a context rebuilt from the stored document
ProcessFollowup(d, questionId, answer, extractReply, policyReply, questionReply) ==
  LET Respond(answered, asked) ==
        LET pendingQuestions == SelectSeq(asked.conversationHistory, FacadePending)
            hasMoreQuestions == Len(pendingQuestions) > 0
        IN [doc |-> asked.doc,
            ret |-> [NoReturn EXCEPT
                       !.op = "followup",
                       !.questionId = questionId,
                       !.answer = answer,
                       !.extractReply = extractReply,
                       !.extractedInfo = answered.extractedInfo,
                       !.policyReply = policyReply,
                       !.decision = asked.decision,
                       !.appended = asked.appended,
                       !.conversationHistory = asked.conversationHistory,
                       !.finalConfidence = asked.finalConfidence,
                       !.complete = ~hasMoreQuestions]]
      Continue(answered) ==
        IF answered.threw
          THEN [doc |-> d,
                ret |-> [NoReturn EXCEPT !.op = "followup",
                                         !.error = "CouldNotSaveAnswer",
                                         !.questionId = questionId]]
          ELSE Respond(answered,
                       AskQuestions(answered.doc,
                                    [confidence |->
                                       ConfidenceOrDefault(answered.doc.finalConfidence),
                                     extractedFeatures |->
                                       answered.doc.extractedFields],
                                    NoReply, policyReply, questionReply))
  IN Continue(ProcessAnswer(d, questionId, answer, extractReply))

\* POST /complaints/:id/initiate-call
InitiateCallHandler(d, httpOk) ==
  LET companyPhone == IF d.contactDetails.phoneNumbers = <<>> THEN <<>>
                      ELSE d.contactDetails.phoneNumbers[1]
      formattedPhone == ToE164(companyPhone)
      placed == BlandPlaceCall(formattedPhone, httpOk)
  IN IF ~d.exists
       THEN [doc |-> d,
             ret |-> [NoReturn EXCEPT !.op = "initiateCall",
                                      !.error = "ComplaintNotFound"]]
     ELSE IF companyPhone = <<>>
       THEN [doc |-> d,
             ret |-> [NoReturn EXCEPT !.op = "initiateCall",
                                      !.error = "PhoneNotFound"]]
     ELSE IF formattedPhone = <<>>
       THEN [doc |-> d,
             ret |-> [NoReturn EXCEPT !.op = "initiateCall",
                                      !.error = "InvalidPhoneFormat"]]
     ELSE [doc |-> [d EXCEPT !.callStatus = placed.result.status],
           ret |-> [NoReturn EXCEPT
                      !.op = "initiateCall",
                      !.callPlaced = placed.requested,
                      !.pendingAtCall = PendingCount(d.conversationHistory),
                      !.status = placed.result.status,
                      !.nextSteps = placed.result.nextSteps]]

\* POST /execute-both: the call and the email are started together and joined
ExecuteBothHandler(d, httpOk, emailOk) ==
  LET emails == d.contactDetails.emails
      companyPhone == IF d.contactDetails.phoneNumbers = <<>> THEN <<>>
                      ELSE d.contactDetails.phoneNumbers[1]
      formattedPhone == ToE164(companyPhone)
      placed == BlandPlaceCall(formattedPhone, httpOk)
  IN IF ~d.exists
       THEN [NoReturn EXCEPT !.op = "executeBoth",
                             !.error = "ComplaintNotFound"]
     ELSE IF emails = <<>>
       THEN [NoReturn EXCEPT !.op = "executeBoth",
                             !.error = "EmailNotFound"]
     ELSE IF companyPhone = <<>>
       THEN [NoReturn EXCEPT !.op = "executeBoth",
                             !.error = "PhoneNotFound"]
     ELSE IF formattedPhone = <<>>
       THEN [NoReturn EXCEPT !.op = "executeBoth",
                             !.error = "InvalidPhoneFormat"]
     ELSE [NoReturn EXCEPT
             !.op = "executeBoth",
             !.callPlaced = placed.requested,
             !.pendingAtCall = PendingCount(d.conversationHistory),
             !.status = placed.result.status,
             !.nextSteps = placed.result.nextSteps,
             !.emailStatus = IF emailOk THEN "sent" ELSE "failed"]

----------------------------------------------------------------------------
(* BlandAICallManager (integrated flow): initiateCall and the poll loop of  *)
(* monitorCallProgress.  The interval callback is asynchronous: a tick     *)
(* counts and sends the status request, the response is handled later, and *)
(* ticks keep coming while responses are outstanding.                      *)

\* monitorCallProgress: maxChecks
MaxChecks == 400

\* status requests that may be outstanding at once
MaxInflight == 2

\* values of call.status
CallStatus ==
  [inProgress |->
      <<"i","n","-","p","r","o","g","r","e","s","s">>,
   queued |->
      <<"q","u","e","u","e","d">>,
   completed |->
      <<"c","o","m","p","l","e","t","e","d">>,
   failed |->
      <<"f","a","i","l","e","d">>,
   cancelled |->
      <<"c","a","n","c","e","l","l","e","d">>,
   noAnswer |->
      <<"n","o","-","a","n","s","w","e","r">>]

\* literal texts of initiateCall and monitorCallProgress, and the messages
\* of a failed request
CallText ==
  [call |->
      <<"C","a","l","l"," ">>,
   colon |->
      <<":"," ">>,
   monitoringTimeout |->
      <<"C","a","l","l"," ","m","o","n","i","t","o","r","i","n","g"," ","t",
      "i","m","e","o","u","t"," ","-"," ","c","a","l","l"," ","m","a","y",
      " ","s","t","i","l","l"," ","b","e"," ","i","n"," ","p","r","o","g",
      "r","e","s","s">>,
   technicalIssues |->
      <<"C","a","l","l"," ","c","o","u","l","d"," ","n","o","t"," ","b","e",
      " ","c","o","m","p","l","e","t","e","d"," ","d","u","e"," ","t","o",
      " ","t","e","c","h","n","i","c","a","l"," ","i","s","s","u","e","s">>,
   callManually |->
      <<"P","l","e","a","s","e"," ","t","r","y"," ","c","a","l","l","i","n",
      "g"," ","t","h","e"," ","c","u","s","t","o","m","e","r"," ","s","e",
      "r","v","i","c","e"," ","n","u","m","b","e","r"," ","m","a","n","u",
      "a","l","l","y">>,
   followUpAsNeeded |->
      <<"F","o","l","l","o","w"," ","u","p"," ","a","s"," ","n","e","e","d",
      "e","d"," ","b","a","s","e","d"," ","o","n"," ","a","g","e","n","t",
      " ","i","n","s","t","r","u","c","t","i","o","n","s">>,
   networkError |->
      <<"N","e","t","w","o","r","k"," ","E","r","r","o","r">>,
   axiosTimeout |->
      <<"t","i","m","e","o","u","t"," ","o","f"," ","3","0","0","0","0","m",
      "s"," ","e","x","c","e","e","d","e","d">>,
   busy |->
      <<"b","u","s","y">>]

\* `Call ${call.status}: ${errorMessage}` with
\* errorMessage = call.error_message || `Call ${call.status}`
FailedCallMessage(status, errorMessage) ==
  CallText.call \o status \o CallText.colon
    \o (IF errorMessage = <<>> THEN CallText.call \o status ELSE errorMessage)

NoCallResult == [status |-> "none", callId |-> "none", resolution |-> <<>>, nextSteps |-> <<>>, error |-> <<>>]

\* initiateCall's return when monitorCallProgress resolved
CompletedCallResult ==
  [status |-> "completed", callId |-> "call", resolution |-> <<>>,
   nextSteps |-> CallText.followUpAsNeeded, error |-> <<>>]

\* the catch of initiateCall dropping error.message
FailedCallResultNoError(message) ==
  [status |-> "failed", callId |-> "null", resolution |-> CallText.technicalIssues,
   nextSteps |-> CallText.callManually, error |-> <<>>]

\* the catch of initiateCall
FailedCallResult(message) ==
  [status |-> "failed", callId |-> "null", resolution |-> CallText.technicalIssues,
   nextSteps |-> CallText.callManually, error |-> message]

\* no call started
NoMonitor ==
  [phase |-> "idle", posts |-> 0, checkCount |-> 0, inflight |-> 0,
   outcome |-> "none", result |-> NoCallResult]

\* a reply to GET /v1/calls/:id
PollReply(status, errorMessage) ==
  [ok |-> TRUE, status |-> status, errorMessage |-> errorMessage, message |-> <<>>]

\* the status request failing
PollError(message) ==
  [ok |-> FALSE, status |-> <<>>, errorMessage |-> <<>>, message |-> message]

\* the interval callback up to its await: count, send the request
MonitorTickStep(m) ==
  [m EXCEPT !.checkCount = @ + 1, !.inflight = @ + 1]

\* the poll loop with the ceiling tested by > instead of >=
MonitorCallProgressLate(m, reply) ==
  LET Settle(outcome, result) ==
        IF m.phase = "monitoring"
          THEN [m EXCEPT !.inflight = @ - 1, !.phase = "returned",
                         !.outcome = outcome, !.result = result]
          ELSE [m EXCEPT !.inflight = @ - 1]
  IN  IF ~reply.ok
        THEN Settle("error", FailedCallResult(reply.message))
      ELSE IF reply.status = CallStatus.completed
        THEN Settle("resolved", CompletedCallResult)
      ELSE IF reply.status \in {CallStatus.failed, CallStatus.cancelled, CallStatus.noAnswer}
        THEN Settle("callStatus",
                    FailedCallResult(FailedCallMessage(reply.status,
                                                       reply.errorMessage)))
      ELSE IF m.checkCount > MaxChecks
        THEN Settle("timeout", FailedCallResult(CallText.monitoringTimeout))
      ELSE [m EXCEPT !.inflight = @ - 1]

\* the interval callback after its await, and initiateCall's return when the
\* promise settles; a promise settles once, later resolve/reject do nothing
MonitorCallProgress(m, reply) ==
  LET Settle(outcome, result) ==
        IF m.phase = "monitoring"
          THEN [m EXCEPT !.inflight = @ - 1, !.phase = "returned",
                         !.outcome = outcome, !.result = result]
          ELSE [m EXCEPT !.inflight = @ - 1]
  IN  IF ~reply.ok
        THEN Settle("error", FailedCallResult(reply.message))
      ELSE IF reply.status = CallStatus.completed
        THEN Settle("resolved", CompletedCallResult)
      ELSE IF reply.status \in {CallStatus.failed, CallStatus.cancelled, CallStatus.noAnswer}
        THEN Settle("callStatus",
                    FailedCallResult(FailedCallMessage(reply.status,
                                                       reply.errorMessage)))
      ELSE IF m.checkCount >= MaxChecks
        THEN Settle("timeout", FailedCallResult(CallText.monitoringTimeout))
      ELSE [m EXCEPT !.inflight = @ - 1]

\* initiateCall up to the await of monitorCallProgress
InitiateCallPost(m, postOk) ==
  IF postOk
    THEN [m EXCEPT !.phase = "monitoring", !.posts = @ + 1]
    ELSE [m EXCEPT !.phase = "returned", !.posts = @ + 1, !.outcome = "error",
                   !.result = FailedCallResult(CallText.axiosTimeout)]

----------------------------------------------------------------------------
(* FallbackHandler.handleFallback over TwilioController.  handleFallback   *)
(* is suspended at each of its three awaits; invocations for the same      *)
(* callSid interleave there.                                               *)

\* concurrent invocations of handleFallback for one callSid
MaxEpisodes == 2

Episodes == 1..MaxEpisodes

\* literal texts of FallbackHandler and TwilioController, and the phone
\* numbers of a context
FallbackText ==
  [holdFailed |->
      <<"F","a","i","l","e","d"," ","t","o"," ","p","l","a","c","e"," ","c",
      "a","l","l"," ","o","n"," ","h","o","l","d">>,
   resumeFailed |->
      <<"F","a","i","l","e","d"," ","t","o"," ","r","e","s","u","m","e"," ",
      "c","a","l","l"," ","a","f","t","e","r"," ","f","a","l","l","b","a",
      "c","k">>,
   callUserFailed |->
      <<"F","a","i","l","e","d"," ","t","o"," ","c","a","l","l"," ","u","s",
      "e","r"," ","f","o","r"," ","f","a","l","l","b","a","c","k",":"," ">>,
   fallbackFailed |->
      <<"F","a","l","l","b","a","c","k"," ","h","a","n","d","l","i","n","g",
      " ","f","a","i","l","e","d",":"," ">>,
   unavailable |->
      <<"U","N","A","V","A","I","L","A","B","L","E">>,
   defaultUserPhone |->
      <<"+","1","5","5","5","1","2","3","4","5","6","7">>,
   customerPhone |->
      <<"+","9","1","7","6","7","8","1","1","4","0","9","9">>,
   companyPhone |->
      <<"+","1","8","0","0","5","5","5","0","1","0","0">>]

\* FallbackHandler.getUserPhoneNumber
GetUserPhoneNumber(context) ==
  IF context.customerPhone # <<>> THEN context.customerPhone
  ELSE IF context.contactPhone # <<>> THEN context.contactPhone
  ELSE FallbackText.defaultUserPhone

\* TwilioController.placeCallOnHold: true, or false from its catch
PlaceCallOnHold(apiOk) == apiOk

\* TwilioController.resumeCall: true, or false from its catch
ResumeCall(apiOk) == apiOk

\* TwilioController.callUserForFallback: the fallback record is stored and
\* the result returned, or the catch throws
CallUserForFallback(addOk) ==
  IF addOk
    THEN [threw |-> FALSE, error |-> <<>>, callResumed |-> TRUE]
    ELSE [threw |-> TRUE, error |-> FallbackText.callUserFailed \o FallbackText.unavailable,
          callResumed |-> FALSE]

NoEpisode ==
  [pc |-> "idle", context |-> [customerPhone |-> <<>>, contactPhone |-> <<>>],
   userPhoneNumber |-> <<>>, error |-> <<>>, callResumed |-> FALSE]

\* no invocation yet, the company call in progress
NoFallback ==
  [episode |-> [e \in Episodes |-> NoEpisode], onHold |-> FALSE, log |-> <<>>]

\* the TwilioController operation `op` of invocation e completed
Logged(f, e, op, ok) ==
  [f EXCEPT !.log = Append(@, [op |-> op, episode |-> e, ok |-> ok])]

\* the catch of handleFallback; the invocation's locals are gone
Thrown(f, e, message) ==
  [f EXCEPT !.episode[e] = [NoEpisode EXCEPT
                              !.pc = "thrown",
                              !.error = FallbackText.fallbackFailed \o message]]

\* handleFallback up to `await placeCallOnHold`
HandleFallbackStart(f, e, context) ==
  [f EXCEPT !.episode[e].pc = "awaitHold", !.episode[e].context = context]

\* handleFallback going on to the side call whatever the hold returned
HandleFallbackAfterHoldUnchecked(f, e, apiOk) ==
  LET held == [Logged(f, e, "hold", PlaceCallOnHold(apiOk))
                 EXCEPT !.onHold = @ \/ PlaceCallOnHold(apiOk)]
  IN  [held EXCEPT !.episode[e].pc = "awaitSideCall",
                   !.episode[e].userPhoneNumber =
                      GetUserPhoneNumber(f.episode[e].context)]

\* handleFallback from the hold's result to `await callUserForFallback`
HandleFallbackAfterHold(f, e, apiOk) ==
  LET held == [Logged(f, e, "hold", PlaceCallOnHold(apiOk))
                 EXCEPT !.onHold = @ \/ PlaceCallOnHold(apiOk)]
  IN  IF ~PlaceCallOnHold(apiOk)
        THEN Thrown(held, e, FallbackText.holdFailed)
        ELSE [held EXCEPT !.episode[e].pc = "awaitSideCall",
                          !.episode[e].userPhoneNumber =
                             GetUserPhoneNumber(f.episode[e].context)]

\* handleFallback from the side call's outcome to `await resumeCall`
HandleFallbackAfterSideCall(f, e, addOk) ==
  LET called == Logged(f, e, "sideCall", addOk)
  IN  IF CallUserForFallback(addOk).threw
        THEN Thrown(called, e, CallUserForFallback(addOk).error)
        ELSE [called EXCEPT !.episode[e].pc = "awaitResume",
                            !.episode[e].callResumed =
                               CallUserForFallback(addOk).callResumed]

\* handleFallback from the resume's result to its return
HandleFallbackAfterResume(f, e, apiOk) ==
  LET resumed == [Logged(f, e, "resume", ResumeCall(apiOk))
                    EXCEPT !.onHold = @ /\ ~ResumeCall(apiOk)]
  IN  IF ~ResumeCall(apiOk)
        THEN Thrown(resumed, e, FallbackText.resumeFailed)
        ELSE [resumed EXCEPT !.episode[e] =
                [NoEpisode EXCEPT !.pc = "returned",
                                  !.callResumed = f.episode[e].callResumed]]

----------------------------------------------------------------------------
(* Concurrent follow-up requests for one complaint.  processAnswer and     *)
(* askQuestions each read the document, await the LLM and then update the  *)
(* fields they computed from what they read; requests interleave at these  *)
(* awaits.                                                                 *)

\* follow-up requests in progress at once
MaxFlows == 2

Flows == 1..MaxFlows

\* a request not yet received; its locals
NoFlow ==
  [pc |-> "idle", snapshot |-> NoDocument,
   context |-> [confidence |-> Undefined, extractedFeatures |-> EmptyMap],
   questionId |-> 0, answer |-> <<>>]

NoFlows == [f \in Flows |-> NoFlow]

\* db.collection('complaints').doc(id).update({...}) of processAnswer: the
\* named fields are replaced, the others stay as stored
UpdateAfterAnswer(stored, computed) ==
  [stored EXCEPT !.conversationHistory = computed.conversationHistory,
                 !.extractedFields = computed.extractedFields,
                 !.finalConfidence = computed.finalConfidence,
                 !.questionFlowCompleted = computed.questionFlowCompleted,
                 !.questionsAnswered = computed.questionsAnswered]

\* the update of askQuestions
UpdateAfterQuestions(stored, computed) ==
  [stored EXCEPT !.conversationHistory = computed.conversationHistory,
                 !.extractedFields = computed.extractedFields,
                 !.finalConfidence = computed.finalConfidence,
                 !.questionFlowCompleted = computed.questionFlowCompleted,
                 !.questionsAsked = computed.questionsAsked,
                 !.questionsAnswered = computed.questionsAnswered]

----------------------------------------------------------------------------
(* POST /execute-both as a fan-out: the call and the email are started     *)
(* before the handler awaits, each promise carries its own catch, and the  *)
(* handler awaits Promise.all of the two                                   *)

\* no request in progress
NoFanout ==
  [pc |-> "idle", call |-> "notStarted", email |-> "notStarted",
   complaintData |-> NoDocument]

\* the handler answering as soon as one of the two has settled
JoinReadyFirstWins(f) == f.call # "pending" \/ f.email # "pending"

\* await Promise.all([callPromise, emailPromise])
JoinReady(f) == f.call # "pending" /\ f.email # "pending"

----------------------------------------------------------------------------
(* Transcript heuristics: BlandAICallManager.extractReferenceNumber and     *)
(* FallbackHandler.detectFallbackNeeded.  A regular expression is modelled *)
(* by the match the backtracking engine finds first.                       *)

\* no function applied yet
NoProbe == [op |-> "none", transcript |-> <<>>, result |-> <<>>]

UpperLetters == {UpperCase[i] : i \in 1..26}

LowerLetters == {LowerCase[i] : i \in 1..26}

\* length of the run of characters of `class` that starts at position p
RECURSIVE RunLen(_, _, _)
RunLen(s, p, class) ==
  IF p <= Len(s) /\ s[p] \in class THEN 1 + RunLen(s, p + 1, class) ELSE 0

\* the text has `word` at position p
MatchesAt(s, p, word) ==
  p + Len(word) - 1 <= Len(s) /\ SubSeq(s, p, p + Len(word) - 1) = word

\* the words of referencePatterns[0]
ReferenceWord ==
  [reference |->
      <<"r","e","f","e","r","e","n","c","e">>,
   confirmation |->
      <<"c","o","n","f","i","r","m","a","t","i","o","n">>,
   case |->
      <<"c","a","s","e">>,
   ticket |->
      <<"t","i","c","k","e","t">>,
   order |->
      <<"o","r","d","e","r">>,
   claim |->
      <<"c","l","a","i","m">>,
   number |->
      <<"n","u","m","b","e","r">>,
   hash |->
      <<"#">>,
   id |->
      <<"i","d">>]

\* (?:reference|confirmation|case|ticket|order|claim)
ReferenceKeywords ==
  <<ReferenceWord.reference, ReferenceWord.confirmation, ReferenceWord.case, ReferenceWord.ticket,
    ReferenceWord.order, ReferenceWord.claim>>

\* (?:number|#|id)
ReferenceLabels == <<ReferenceWord.number, ReferenceWord.hash, ReferenceWord.id>>

\* length of the first alternative of `words` found at position p, else 0
AlternativeLen(lower, p, words) ==
  IF \E k \in DOMAIN words : MatchesAt(lower, p, words[k])
    THEN Len(words[CHOOSE k \in DOMAIN words :
                     /\ MatchesAt(lower, p, words[k])
                     /\ \A j \in 1..(k - 1) : ~MatchesAt(lower, p, words[j])])
    ELSE 0

\* group 1 of the first match of
\* /(?:reference|...|claim)\s*(?:number|#|id)?\s*:?\s*([A-Z0-9]{4,})/i,
\* <<>> when there is no match.  At a keyword the engine first takes the
\* optional label and, when no code of four characters follows it, goes
\* back and matches without the label.
LabelledReference(s) ==
  LET lower == ToLowerCase(s)
      SkipSpace(p) == p + RunLen(s, p, Whitespace)
      CaptureAt(q) ==
        IF RunLen(s, q, UpperLetters \cup LowerLetters \cup Digits) >= 4
          THEN SubSeq(s, q, q + RunLen(s, q, UpperLetters \cup LowerLetters
                                                   \cup Digits) - 1)
          ELSE <<>>
      AfterColon(p) ==
        IF SkipSpace(p) <= Len(s) /\ s[SkipSpace(p)] = ":"
          THEN SkipSpace(SkipSpace(p) + 1)
          ELSE SkipSpace(p)
      WithLabel(p) ==
        IF AlternativeLen(lower, SkipSpace(p), ReferenceLabels) = 0
          THEN <<>>
          ELSE CaptureAt(AfterColon(SkipSpace(p)
                   + AlternativeLen(lower, SkipSpace(p), ReferenceLabels)))
      AfterKeyword(p) ==
        IF WithLabel(p) # <<>> THEN WithLabel(p) ELSE CaptureAt(AfterColon(p))
      MatchFrom(i) ==
        IF AlternativeLen(lower, i, ReferenceKeywords) = 0
          THEN <<>>
          ELSE AfterKeyword(i + AlternativeLen(lower, i, ReferenceKeywords))
      starts == {i \in 1..Len(s) : MatchFrom(i) # <<>>}
  IN  IF starts = {} THEN <<>>
      ELSE MatchFrom(CHOOSE i \in starts : \A j \in starts : i <= j)

\* length of the match of /([A-Z]{2,}\d{4,}|\d{6,}[A-Z]{2,})/ at position i
CodeLenAt(s, i) ==
  LET letters == RunLen(s, i, UpperLetters)
      digits == RunLen(s, i, Digits)
  IN  IF letters >= 2 /\ RunLen(s, i + letters, Digits) >= 4
        THEN letters + RunLen(s, i + letters, Digits)
      ELSE IF digits >= 6 /\ RunLen(s, i + digits, UpperLetters) >= 2
        THEN digits + RunLen(s, i + digits, UpperLetters)
      ELSE 0

\* text.match(/([A-Z]{2,}\d{4,}|\d{6,}[A-Z]{2,})/g): every match from i on
RECURSIVE CodeMatches(_, _)
CodeMatches(s, i) ==
  IF i > Len(s) THEN <<>>
  ELSE IF CodeLenAt(s, i) > 0
    THEN <<SubSeq(s, i, i + CodeLenAt(s, i) - 1)>>
           \o CodeMatches(s, i + CodeLenAt(s, i))
  ELSE CodeMatches(s, i + 1)

\* text.match(/([A-Z0-9]{8,})/g): every match from i on
RECURSIVE LongCodeMatches(_, _)
LongCodeMatches(s, i) ==
  IF i > Len(s) THEN <<>>
  ELSE IF RunLen(s, i, UpperLetters \cup Digits) >= 8
    THEN <<SubSeq(s, i, i + RunLen(s, i, UpperLetters \cup Digits) - 1)>>
           \o LongCodeMatches(s, i + RunLen(s, i, UpperLetters \cup Digits))
  ELSE LongCodeMatches(s, i + 1)

\* `matches[1] || matches[0]` on the array of a global match: the second
\* match when there are two
SecondOrFirst(matches) ==
  IF Len(matches) >= 2 THEN matches[2] ELSE matches[1]

\* the inner loop over referencePatterns for one entry, <<>> for no match
ReferenceInText(text) ==
  IF LabelledReference(text) # <<>> THEN LabelledReference(text)
  ELSE IF CodeMatches(text, 1) # <<>> THEN SecondOrFirst(CodeMatches(text, 1))
  ELSE IF LongCodeMatches(text, 1) # <<>>
    THEN SecondOrFirst(LongCodeMatches(text, 1))
  ELSE <<>>

\* extractReferenceNumber: entries from the last to the first, assistant
\* entries skipped; <<>> stands for null
RECURSIVE ExtractReferenceNumber(_)
ExtractReferenceNumber(transcript) ==
  IF transcript = <<>> THEN <<>>
  ELSE IF transcript[Len(transcript)].user = "assistant"
    THEN ExtractReferenceNumber(SubSeq(transcript, 1, Len(transcript) - 1))
  ELSE IF ReferenceInText(transcript[Len(transcript)].text) # <<>>
    THEN ReferenceInText(transcript[Len(transcript)].text)
  ELSE ExtractReferenceNumber(SubSeq(transcript, 1, Len(transcript) - 1))

FallbackTriggersDefault ==
  <<"n","e","e","d"," ","m","o","r","e"," ","i","n","f","o","r","m","a",
    "t","i","o","n",",","c","a","n","n","o","t"," ","p","r","o","c","e",
    "e","d",",","m","i","s","s","i","n","g"," ","d","e","t","a","i","l",
    "s">>

\* the words detectFallbackNeeded looks for in a triggering message
FieldWord ==
  [account |->
      <<"a","c","c","o","u","n","t">>,
   order |->
      <<"o","r","d","e","r">>,
   date |->
      <<"d","a","t","e">>,
   address |->
      <<"a","d","d","r","e","s","s">>]

\* callOrchestrationConfig.fallbackTriggers with FALLBACK_TRIGGERS unset
FallbackTriggers == Split(FallbackTriggersDefault, ",")

\* the field pushed for a message that includes a trigger
MissingField(message) ==
  IF Includes(message, FieldWord.account) THEN "account_number"
  ELSE IF Includes(message, FieldWord.order) THEN "order_number"
  ELSE IF Includes(message, FieldWord.date) THEN "purchase_date"
  ELSE IF Includes(message, FieldWord.address) THEN "shipping_address"
  ELSE "additional_details"

\* the pushes of the two nested loops, from message m and trigger t on
RECURSIVE MissingInfoFrom(_, _, _)
MissingInfoFrom(messages, m, t) ==
  IF m > Len(messages) THEN <<>>
  ELSE IF t > Len(FallbackTriggers) THEN MissingInfoFrom(messages, m + 1, 1)
  ELSE IF Includes(messages[m], ToLowerCase(FallbackTriggers[t]))
    THEN <<MissingField(messages[m])>> \o MissingInfoFrom(messages, m, t + 1)
  ELSE MissingInfoFrom(messages, m, t + 1)

\* [...new Set(list)]: first occurrences, in order
RECURSIVE Unique(_)
Unique(list) ==
  IF list = <<>> THEN <<>>
  ELSE LET front == Unique(SubSeq(list, 1, Len(list) - 1))
       IN  IF \E i \in DOMAIN front : front[i] = list[Len(list)]
             THEN front
             ELSE Append(front, list[Len(list)])

\* detectFallbackNeeded without slice(-3): every customer-service message
\* of the call is examined
DetectFallbackNeededWholeCall(transcript) ==
  LET FromCustomerService(entry) == entry.speaker = "customer_service"
      Lowered(recent) == [i \in DOMAIN recent |-> ToLowerCase(recent[i].text)]
  IN  Unique(MissingInfoFrom(
               Lowered(SelectSeq(transcript, FromCustomerService)), 1, 1))

\* FallbackHandler.detectFallbackNeeded
DetectFallbackNeeded(transcript) ==
  LET FromCustomerService(entry) == entry.speaker = "customer_service"
      Recent(spoken) ==
        IF Len(spoken) > 3 THEN SubSeq(spoken, Len(spoken) - 2, Len(spoken))
                           ELSE spoken
      Lowered(recent) == [i \in DOMAIN recent |-> ToLowerCase(recent[i].text)]
  IN  Unique(MissingInfoFrom(
               Lowered(Recent(SelectSeq(transcript, FromCustomerService))),
               1, 1))

----------------------------------------------------------------------------
(* IVR navigation: IVRNavigator.navigateToHuman and TwilioController *)

\* the words determineTargetDepartment looks for in the issue
IssueWord ==
  [bill |->
      <<"b","i","l","l">>,
   charge |->
      <<"c","h","a","r","g","e">>,
   payment |->
      <<"p","a","y","m","e","n","t">>,
   technical |->
      <<"t","e","c","h","n","i","c","a","l">>,
   error |->
      <<"e","r","r","o","r">>,
   notWorking |->
      <<"n","o","t"," ","w","o","r","k","i","n","g">>,
   cancel |->
      <<"c","a","n","c","e","l">>,
   subscription |->
      <<"s","u","b","s","c","r","i","p","t","i","o","n">>,
   refund |->
      <<"r","e","f","u","n","d">>,
   return |->
      <<"r","e","t","u","r","n">>]

\* IVRNavigator.determineTargetDepartment; issue is <<>> when the context
\* has none
DetermineTargetDepartment(issue) ==
  LET issueType == ToLowerCase(issue)
      Has(word) == Includes(issueType, word)
  IN  IF Has(IssueWord.bill) \/ Has(IssueWord.charge) \/ Has(IssueWord.payment)
        THEN "billing"
      ELSE IF Has(IssueWord.technical) \/ Has(IssueWord.error)
                \/ Has(IssueWord.notWorking)
        THEN "technical_support"
      ELSE IF Has(IssueWord.cancel) \/ Has(IssueWord.subscription)
        THEN "account_management"
      ELSE IF Has(IssueWord.refund) \/ Has(IssueWord.return)
        THEN "returns"
      ELSE "general_customer_service"

\* contactDetails.ivrStructure left out (undefined)
NoStructure == [defined |-> FALSE, nodes |-> <<>>]

\* contactDetails.ivrStructure holding the given IVR nodes
Structure(nodes) == [defined |-> TRUE, nodes |-> nodes]

Step(action, value, delayMs, description) ==
  [action |-> action, value |-> value, delayMs |-> delayMs,
   description |-> description]

\* TwilioController.generateIVRNavigationPlan
GenerateIVRNavigationPlan(ivrStructure, targetDepartment) ==
  IF ivrStructure.defined /\ Len(ivrStructure.nodes) > 0
    THEN [steps |->
            <<Step("wait", "greeting", 5000, "Wait for initial greeting"),
              Step("press", "2", 1000, "Press 2 for customer service"),
              Step("wait", "menu", 3000, "Wait for department menu"),
              Step("press", "1", 1000, "Press 1 for billing issues")>>,
          estimatedDuration |-> 10000]
    ELSE [steps |->
            <<Step("wait", "greeting", 5000, "Wait for initial greeting"),
              Step("press", "0", 1000, "Press 0 to reach an operator"),
              Step("wait", "operator", 10000, "Wait for operator")>>,
          estimatedDuration |-> 16000]

\* navigateToHuman up to the first step of navigateIVR
NavigateToHuman(issue, ivrStructure) ==
  [op |-> "navigateToHuman", issue |-> issue, ivrStructure |-> ivrStructure,
   targetDepartment |-> DetermineTargetDepartment(issue),
   navigationPlan |->
     GenerateIVRNavigationPlan(ivrStructure, DetermineTargetDepartment(issue)),
   executed |-> 0, sent |-> <<>>, result |-> "pending"]

\* TwilioController.executeNavigationStep for the next step of the plan:
\* a 'press' sends the step's value as DTMF, a 'wait' only waits
ExecuteNavigationStep(p) ==
  LET step == p.navigationPlan.steps[p.executed + 1]
  IN  [p EXCEPT !.executed = @ + 1,
                !.sent = IF step.action = "press" THEN Append(@, step.value)
                                                  ELSE @]

----------------------------------------------------------------------------
(* ComplaintProcessor.processComplaint (command-line flow) *)

\* the command-line complaint processor has not been started.  context is
\* the EnhancedComplaintContext of the loop, decision the value the promise
\* of the last shouldAskMoreQuestions call resolves to
NoProcessor ==
  [pc |-> "idle",
   context |-> [conversationHistory |-> <<>>, extractedFields |-> EmptyMap],
   decision |-> "none", question |-> <<>>, asked |-> 0, callStatus |-> "none"]

\* FollowupHandler.processAnswer called without a complaintId: the question
\* and its answer are appended as a new turn
FollowupProcessAnswer(context, question, answer, extractReply) ==
  LET extractedInfo == ExtractInformationFromAnswer(extractReply)
      turn == [NewTurn(Len(context.conversationHistory) + 1, question)
                 EXCEPT !.answer = answer,
                        !.extractedInfo = extractedInfo,
                        !.confidenceDelta =
                           IF DOMAIN extractedInfo # {} THEN 2 ELSE 1]
  IN  [conversationHistory |-> Append(context.conversationHistory, turn),
       extractedFields |-> Merge(context.extractedFields, extractedInfo)]

\* processComplaint from the loop condition to the prompt.  The condition is
\* the promise shouldAskMoreQuestions returns, which is an object and so
\* true whatever it resolves to; the body is left when no question is
\* generated
ProcessComplaintLoop(p, policyReply, questionReply) ==
  LET history == p.context.conversationHistory
      decision == IF ShouldAskMoreQuestions(history, policyReply)
                    THEN "continue" ELSE "stop"
      question == GenerateFollowupQuestion(history, questionReply)
  IN  IF question = <<>>
        THEN [p EXCEPT !.pc = "call", !.decision = decision,
                       !.question = <<>>]
        ELSE [p EXCEPT !.pc = "prompt", !.decision = decision,
                       !.question = question, !.asked = @ + 1]

\* processComplaint from the user's answer to the next loop condition; a
\* failed update of the complaint document leaves the loop
ProcessComplaintAnswer(p, answer, extractReply, updateOk) ==
  [p EXCEPT !.pc = IF updateOk THEN "loop" ELSE "call",
            !.context = FollowupProcessAnswer(@, p.question, answer,
                                              extractReply)]

\* processComplaint after the loop: the call is placed for the complaint
\* created at the start
ProcessComplaintCall(p, firstConnect) ==
  [p EXCEPT !.pc = "done",
            !.callStatus =
               PlaceComplaintCall(CreatedDocument, firstConnect, 1).result.status]

----------------------------------------------------------------------------
(* Inputs *)

\* confidence of the ComplaintContext built at intake, in tenths
ConfidenceInputs == {0, 5, 9}

\* replies to the continuation request: "continue" with stray case and
\* whitespace, "stop", an unusable sentence, and a failed request
PolicyReplies ==
  {Reply(TextContinueLower), Reply(TextStop), Reply(TextContinueDot), NoReply}

\* replies to the question request: a failed request and a vague question
QuestionReplies == {NoReply, Reply(TextVagueQuestion)}

\* replies to an extraction request: a failed request, a JSON object inside
\* prose, and braces around prose
ExtractReplies ==
  {NoReply,
   Reply(<<Prose, LBrace, Pair("date", "yesterday"), RBrace, Prose>>),
   Reply(<<LBrace, Prose, RBrace>>)}

\* answers a caller may submit: empty, whitespace only, a text
AnswerInputs == {<<>>, <<" ">>, <<"o", "k">>}

\* question ids a caller may name; MaxQuestions + 1 names no turn
QuestionIds == 1..(MaxQuestions + 1)

\* the dial collaborator's behaviour: never connects, or connects at attempt n
DialInputs == 0..(MaxRetries + 2)

PhoneE164 == <<"+","1","5","5","5","1","2","3","4","5","6","7">>

PhoneNational == <<"(","5","5","5",")"," ","1","2","3","-","4","5","6","7">>

PhoneShort == <<"1","2","3">>

\* a number written with a leading + and punctuation: +1 (555) 123-4567
PhonePunctuated ==
  <<"+","1"," ","(","5","5","5",")"," ","1","2","3","-","4","5","6","7">>

\* contact details the resolver may have stored with the complaint
ContactInputs ==
  {[phoneNumbers |-> <<PhoneE164>>, emails |-> <<"support@company">>],
   [phoneNumbers |-> <<PhoneNational>>, emails |-> <<>>],
   [phoneNumbers |-> <<PhoneShort>>, emails |-> <<"support@company">>],
   [phoneNumbers |-> <<PhonePunctuated>>, emails |-> <<"support@company">>]}

\* the replies askQuestions will ask for, given the document it reads
PreRepliesFor(d) ==
  IF d.exists /\ d.conversationHistory = <<>> THEN ExtractReplies ELSE {NoReply}

PolicyRepliesFor(d, policyReplies) ==
  IF d.exists /\ PendingCount(d.conversationHistory) = 0
    THEN policyReplies
    ELSE {NoReply}

QuestionRepliesFor(d, policyReply) ==
  IF /\ d.exists
     /\ PendingCount(d.conversationHistory) = 0
     /\ LlmShouldContinueAsking(policyReply)
    THEN QuestionReplies
    ELSE {NoReply}

----------------------------------------------------------------------------
(* Actions: one per handler *)

Init ==
  /\ doc = NoDocument
  /\ originalContext = [confidence |-> Undefined, extractedFeatures |-> EmptyMap]
  /\ ret = NoReturn
  /\ monitor = NoMonitor
  /\ fallback = NoFallback
  /\ flows = NoFlows
  /\ probe = NoProbe
  /\ fanout = NoFanout
  /\ callLog = NoCalls
  /\ processor = NoProcessor

\* POST /complaint with a new complaint
SubmitComplaint(confidences, preReplies, policyReplies, dialInputs) ==
  /\ UNCHANGED <<monitor, fallback, flows, probe, fanout, processor>>
  /\ ~doc.exists
  /\ \E c \in confidences, preReply \in preReplies,
        policyReply \in policyReplies :
       \E questionReply \in QuestionRepliesFor(CreatedDocument, policyReply),
          firstConnect \in dialInputs :
         \E context \in {[confidence |-> c, extractedFeatures |-> EmptyMap]} :
           \E out \in {ProcessNewComplaint(context, preReply, policyReply,
                                            questionReply, firstConnect)} :
             /\ doc' = out.doc
             /\ originalContext' = context
             /\ ret' = out.ret
             /\ callLog' = IF out.ret.callPlaced
                              THEN Dialled(callLog, out.ret.dialAttempts)
                              ELSE callLog

\* POST /complaint with isFollowup, complaintId, questionId and a truthy answer
SubmitFollowup(answers, extractReplies, policyReplies) ==
  /\ UNCHANGED auxVars
  /\ doc.exists
  /\ \E questionId \in QuestionIds, answer \in answers \ {<<>>},
        extractReply \in extractReplies :
       \E stored \in {ProcessAnswer(doc, questionId, answer, extractReply).doc} :
         \E policyReply \in PolicyRepliesFor(stored, policyReplies) :
           \E questionReply \in QuestionRepliesFor(stored, policyReply) :
             \E out \in {ProcessFollowup(doc, questionId, answer, extractReply,
                                          policyReply, questionReply)} :
               /\ doc' = out.doc
               /\ ret' = out.ret
               /\ UNCHANGED originalContext

\* ConversationManager.askQuestions called with the original ComplaintContext
AskQuestionsCall ==
  /\ UNCHANGED auxVars
  /\ doc.exists
  /\ \E preReply \in PreRepliesFor(doc),
        policyReply \in PolicyRepliesFor(doc, PolicyReplies) :
       \E questionReply \in QuestionRepliesFor(doc, policyReply) :
         \E out \in {AskQuestions(doc, originalContext, preReply, policyReply,
                                   questionReply)} :
           /\ doc' = out.doc
           /\ ret' = [NoReturn EXCEPT
                        !.op = "askQuestions",
                        !.policyReply = policyReply,
                        !.decision = out.decision,
                        !.appended = out.appended,
                        !.conversationHistory = out.conversationHistory,
                        !.finalConfidence = out.finalConfidence,
                        !.complete = out.complete]
           /\ UNCHANGED originalContext

\* ConversationManager.processAnswer called directly
ProcessAnswerCall(answers, extractReplies) ==
  /\ UNCHANGED auxVars
  /\ doc.exists
  /\ \E questionId \in QuestionIds, answer \in answers,
        extractReply \in extractReplies :
       \E out \in {ProcessAnswer(doc, questionId, answer, extractReply)} :
         /\ doc' = out.doc
         /\ ret' = IF out.threw
                     THEN [NoReturn EXCEPT !.op = "processAnswer",
                                           !.error = out.error,
                                           !.questionId = questionId]
                     ELSE [NoReturn EXCEPT
                             !.op = "processAnswer",
                             !.questionId = questionId,
                             !.answer = answer,
                             !.extractReply = extractReply,
                             !.extractedInfo = out.extractedInfo,
                             !.conversationHistory = out.conversationHistory,
                             !.finalConfidence = out.finalConfidence,
                             !.complete = out.complete]
         /\ UNCHANGED originalContext

\* DatabaseConnector.updateComplaint storing the resolver's contact details
StoreContactDetails ==
  /\ UNCHANGED auxVars
  /\ doc.exists
  /\ doc.contactDetails = NoContactDetails
  /\ \E contact \in ContactInputs :
       /\ doc' = [doc EXCEPT !.contactDetails = contact]
       /\ ret' = [NoReturn EXCEPT !.op = "updateComplaint"]
       /\ UNCHANGED originalContext

\* POST /complaints/:id/initiate-call
InitiateCall ==
  /\ UNCHANGED auxVars
  /\ doc.exists
  /\ \E httpOk \in BOOLEAN :
       \E out \in {InitiateCallHandler(doc, httpOk)} :
         /\ doc' = out.doc
         /\ ret' = out.ret
         /\ UNCHANGED originalContext

\* POST /execute-both
ExecuteBoth ==
  /\ UNCHANGED auxVars
  /\ doc.exists
  /\ \E httpOk \in BOOLEAN, emailOk \in BOOLEAN :
       /\ ret' = ExecuteBothHandler(doc, httpOk, emailOk)
       /\ UNCHANGED <<doc, originalContext>>

\* an answer that ends in whitespace
TextAnswers == {<<"o", "k", " ">>}

\* the policy replying "continue" or failing
PlainPolicyReplies == {Reply(TextContinueLower), NoReply}

\* the question-answer flow: every kind of answer, any turn answered at any
\* time, through the API and through ConversationManager
Next ==
  \/ SubmitComplaint({5}, {NoReply}, PolicyReplies, {1})
  \/ SubmitFollowup(AnswerInputs, {NoReply}, PolicyReplies)
  \/ AskQuestionsCall
  \/ ProcessAnswerCall(AnswerInputs, {NoReply})

Spec == Init /\ [][Next]_vars

\* answers and what is extracted from them: every intake confidence and
\* every extraction reply
NextAnswer ==
  \/ SubmitComplaint(ConfidenceInputs, ExtractReplies, PlainPolicyReplies, {1})
  \/ SubmitFollowup(TextAnswers, ExtractReplies, PlainPolicyReplies)
  \/ ProcessAnswerCall(TextAnswers, ExtractReplies)

SpecAnswer == Init /\ [][NextAnswer]_vars

\* the call entry points: every dial behaviour, plain answers
NextCall ==
  \/ SubmitComplaint({5}, {NoReply}, PlainPolicyReplies, DialInputs)
  \/ SubmitFollowup({<<"o", "k">>, <<" ">>}, {NoReply}, PlainPolicyReplies)
  \/ StoreContactDetails
  \/ InitiateCall
  \/ ExecuteBoth

SpecCall == Init /\ [][NextCall]_vars

----------------------------------------------------------------------------
(* The monitored call *)

\* what the provider may answer to a status request
PollReplies ==
  {PollReply(CallStatus.inProgress, <<>>), PollReply(CallStatus.queued, <<>>),
   PollReply(CallStatus.completed, <<>>), PollReply(CallStatus.failed, <<>>),
   PollReply(CallStatus.failed, CallText.busy), PollReply(CallStatus.cancelled, <<>>),
   PollReply(CallStatus.noAnswer, <<>>), PollError(CallText.networkError)}

\* BlandAICallManager.initiateCall: POST /v1/calls
InitiateCallStart ==
  /\ monitor.phase = "idle"
  /\ \E postOk \in BOOLEAN : monitor' = InitiateCallPost(monitor, postOk)
  /\ UNCHANGED <<dialogueVars, fallback, flows, probe, fanout, callLog, processor>>

\* the interval fires: the callback runs up to its await
MonitorTick ==
  /\ monitor.phase = "monitoring"
  /\ monitor.inflight < MaxInflight
  /\ monitor' = MonitorTickStep(monitor)
  /\ UNCHANGED <<dialogueVars, fallback, flows, probe, fanout, callLog, processor>>

\* a status response arrives: the callback runs from its await to its end
MonitorResponse ==
  /\ monitor.inflight > 0
  /\ \E reply \in PollReplies : monitor' = MonitorCallProgress(monitor, reply)
  /\ UNCHANGED <<dialogueVars, fallback, flows, probe, fanout, callLog, processor>>

NextMonitor ==
  \/ InitiateCallStart
  \/ MonitorTick
  \/ MonitorResponse

SpecMonitor == Init /\ [][NextMonitor]_vars

\* the timer keeps firing while the interval is set and every status request
\* is answered
SpecMonitorFair ==
  /\ Init
  /\ [][NextMonitor]_vars
  /\ WF_vars(InitiateCallStart)
  /\ WF_vars(MonitorTick)
  /\ WF_vars(MonitorResponse)

----------------------------------------------------------------------------
(* Fallback episodes *)

\* the phone numbers the complaint context may carry
FallbackContexts ==
  {[customerPhone |-> FallbackText.customerPhone, contactPhone |-> FallbackText.companyPhone],
   [customerPhone |-> <<>>, contactPhone |-> FallbackText.companyPhone],
   [customerPhone |-> <<>>, contactPhone |-> <<>>]}

\* CallOrchestrator.handleFallback is called
FallbackStart(e) ==
  /\ fallback.episode[e].pc = "idle"
  /\ \E context \in FallbackContexts :
       fallback' = HandleFallbackStart(fallback, e, context)
  /\ UNCHANGED <<dialogueVars, monitor, flows, probe, fanout, callLog, processor>>

\* placeCallOnHold settles
FallbackHoldDone(e) ==
  /\ fallback.episode[e].pc = "awaitHold"
  /\ \E apiOk \in BOOLEAN : fallback' = HandleFallbackAfterHold(fallback, e, apiOk)
  /\ UNCHANGED <<dialogueVars, monitor, flows, probe, fanout, callLog, processor>>

\* callUserForFallback settles
FallbackSideCallDone(e) ==
  /\ fallback.episode[e].pc = "awaitSideCall"
  /\ \E addOk \in BOOLEAN :
       fallback' = HandleFallbackAfterSideCall(fallback, e, addOk)
  /\ UNCHANGED <<dialogueVars, monitor, flows, probe, fanout, callLog, processor>>

\* resumeCall settles
FallbackResumeDone(e) ==
  /\ fallback.episode[e].pc = "awaitResume"
  /\ \E apiOk \in BOOLEAN :
       fallback' = HandleFallbackAfterResume(fallback, e, apiOk)
  /\ UNCHANGED <<dialogueVars, monitor, flows, probe, fanout, callLog, processor>>

NextFallback ==
  \/ \E e \in Episodes : FallbackStart(e)
  \/ \E e \in Episodes : FallbackHoldDone(e)
  \/ \E e \in Episodes : FallbackSideCallDone(e)
  \/ \E e \in Episodes : FallbackResumeDone(e)

SpecFallback == Init /\ [][NextFallback]_vars

----------------------------------------------------------------------------
(* Concurrent follow-up requests *)

\* the answer each request carries
FlowAnswers == {<<"o", "k">>, <<"n", "o">>}

\* POST /complaint follow-up received: processAnswer reads the document
FlowAnswerRead(f) ==
  /\ flows[f].pc = "idle"
  /\ doc.exists
  /\ \E questionId \in 1..2, answer \in FlowAnswers :
       flows' = [flows EXCEPT ![f] = [@ EXCEPT !.pc = "answerRead",
                                               !.snapshot = doc,
                                               !.questionId = questionId,
                                               !.answer = answer]]
  /\ UNCHANGED <<dialogueVars, monitor, fallback, probe, fanout, callLog, processor>>

\* processAnswer updates the document from what it read, or throws and the
\* request ends
FlowAnswerWrite(f) ==
  /\ flows[f].pc = "answerRead"
  /\ \E out \in {ProcessAnswer(flows[f].snapshot, flows[f].questionId,
                               flows[f].answer, NoReply)} :
       IF out.threw
         THEN /\ flows' = [flows EXCEPT ![f] = [NoFlow EXCEPT !.pc = "done"]]
              /\ UNCHANGED doc
         ELSE /\ doc' = UpdateAfterAnswer(doc, out.doc)
              /\ flows' = [flows EXCEPT ![f] = [@ EXCEPT !.pc = "answered",
                                                      !.snapshot = NoDocument]]
  /\ UNCHANGED <<originalContext, ret, monitor, fallback, probe, fanout, callLog, processor>>

\* processUnifiedComplaint fetches the latest document for the context
FlowContextRead(f) ==
  /\ flows[f].pc = "answered"
  /\ flows' = [flows EXCEPT ![f] =
                 [@ EXCEPT !.pc = "contextRead",
                           !.context =
                              [confidence |->
                                 ConfidenceOrDefault(doc.finalConfidence),
                               extractedFeatures |-> doc.extractedFields]]]
  /\ UNCHANGED <<dialogueVars, monitor, fallback, probe, fanout, callLog, processor>>

\* askQuestions reads the document
FlowQuestionsRead(f) ==
  /\ flows[f].pc = "contextRead"
  /\ flows' = [flows EXCEPT ![f] = [@ EXCEPT !.pc = "questionsRead",
                                             !.snapshot = doc]]
  /\ UNCHANGED <<dialogueVars, monitor, fallback, probe, fanout, callLog, processor>>

\* askQuestions returns what it read when a turn is pending there, else it
\* updates the document from what it read
FlowQuestionsWrite(f) ==
  /\ flows[f].pc = "questionsRead"
  /\ \E policyReply \in PolicyRepliesFor(flows[f].snapshot, PlainPolicyReplies) :
       \E out \in {AskQuestions(flows[f].snapshot, flows[f].context, NoReply,
                                policyReply, NoReply)} :
         IF Len(SelectSeq(flows[f].snapshot.conversationHistory, IsPending)) > 0
           THEN UNCHANGED doc
           ELSE doc' = UpdateAfterQuestions(doc, out.doc)
  /\ flows' = [flows EXCEPT ![f] = [NoFlow EXCEPT !.pc = "done"]]
  /\ UNCHANGED <<originalContext, ret, monitor, fallback, probe, fanout, callLog, processor>>

NextConcurrent ==
  \/ SubmitComplaint({5}, {NoReply}, PlainPolicyReplies, {1})
  \/ \E f \in Flows : FlowAnswerRead(f)
  \/ \E f \in Flows : FlowAnswerWrite(f)
  \/ \E f \in Flows : FlowContextRead(f)
  \/ \E f \in Flows : FlowQuestionsRead(f)
  \/ \E f \in Flows : FlowQuestionsWrite(f)

SpecConcurrent == Init /\ [][NextConcurrent]_vars

----------------------------------------------------------------------------
(* The email/call fan-out *)

\* POST /execute-both up to Promise.all: a validation failure is answered at
\* once, else both promises are created
ExecuteBothStart ==
  /\ doc.exists
  /\ fanout.pc \in {"idle", "responded"}
  /\ IF ExecuteBothHandler(doc, TRUE, TRUE).error # ""
       THEN /\ ret' = ExecuteBothHandler(doc, TRUE, TRUE)
            /\ fanout' = [NoFanout EXCEPT !.pc = "responded"]
       ELSE /\ fanout' = [pc |-> "running", call |-> "pending",
                          email |-> "pending", complaintData |-> doc]
            /\ UNCHANGED ret
  /\ UNCHANGED <<doc, originalContext, monitor, fallback, flows, probe, callLog, processor>>

\* blandAIClient.placeCall(...).catch(...) settles
ExecuteBothCallSettles ==
  /\ fanout.pc = "running"
  /\ fanout.call = "pending"
  /\ \E httpOk \in BOOLEAN :
       fanout' = [fanout EXCEPT !.call = IF httpOk THEN "fulfilled" ELSE "failed"]
  /\ UNCHANGED <<dialogueVars, monitor, fallback, flows, probe, callLog, processor>>

\* emailManager.sendComplaintEmail(...).catch(...) settles
ExecuteBothEmailSettles ==
  /\ fanout.pc = "running"
  /\ fanout.email = "pending"
  /\ \E emailOk \in BOOLEAN :
       fanout' = [fanout EXCEPT !.email = IF emailOk THEN "fulfilled" ELSE "failed"]
  /\ UNCHANGED <<dialogueVars, monitor, fallback, flows, probe, callLog, processor>>

\* Promise.all resolves and the handler answers with both results
ExecuteBothRespond ==
  /\ fanout.pc = "running"
  /\ JoinReady(fanout)
  /\ ret' = ExecuteBothHandler(fanout.complaintData, fanout.call = "fulfilled",
                               fanout.email = "fulfilled")
  /\ fanout' = [fanout EXCEPT !.pc = "responded", !.complaintData = NoDocument]
  /\ UNCHANGED <<doc, originalContext, monitor, fallback, flows, probe, callLog, processor>>

NextFanout ==
  \/ SubmitComplaint({5}, {NoReply}, PlainPolicyReplies, {1})
  \/ SubmitFollowup({<<"o", "k">>}, {NoReply}, PlainPolicyReplies)
  \/ StoreContactDetails
  \/ ExecuteBothStart
  \/ ExecuteBothCallSettles
  \/ ExecuteBothEmailSettles
  \/ ExecuteBothRespond

SpecFanout == Init /\ [][NextFanout]_vars

----------------------------------------------------------------------------
(* Transcripts *)

\* utterances of a call transcript
Says ==
  [caseNumber |->
      <<"Y","o","u","r"," ","c","a","s","e"," ","n","u","m","b","e","r"," ",
      "i","s"," ","A","B","C","1","2","3","4","5",","," ","t","h","a","n",
      "k"," ","y","o","u">>,
   referenceNumber |->
      <<"Y","o","u","r"," ","r","e","f","e","r","e","n","c","e"," ","n","u",
      "m","b","e","r",":"," ","R","E","F","2","0","2","4","A">>,
   ticket |->
      <<"T","i","c","k","e","t"," ","#","4","4","7","1"," ","w","a","s"," ",
      "o","p","e","n","e","d">>,
   twoCodes |->
      <<"U","s","e"," ","c","o","d","e"," ","A","B","1","2","3","4"," ","o",
      "r"," ","C","D","5","6","7","8">>,
   claimReceived |->
      <<"Y","o","u","r"," ","c","l","a","i","m"," ","h","a","s"," ","b","e",
      "e","n"," ","r","e","c","e","i","v","e","d"," ","u","n","d","e","r",
      " ","C","L","M","0","0","0","1","2","3","4","5">>,
   thanks |->
      <<"T","h","a","n","k"," ","y","o","u"," ","f","o","r"," ","c","a","l",
      "l","i","n","g">>,
   needAccountNumber |->
      <<"I"," ","n","e","e","d"," ","t","h","e"," ","a","c","c","o","u","n",
      "t"," ","n","u","m","b","e","r"," ","t","o"," ","p","r","o","c","e",
      "e","d",".">>,
   needMoreInformation |->
      <<"I"," ","n","e","e","d"," ","m","o","r","e"," ","i","n","f","o","r",
      "m","a","t","i","o","n"," ","a","b","o","u","t"," ","y","o","u","r",
      " ","a","c","c","o","u","n","t">>,
   cannotProceed |->
      <<"I"," ","c","a","n","n","o","t"," ","p","r","o","c","e","e","d"," ",
      "w","i","t","h","o","u","t"," ","t","h","e"," ","o","r","d","e","r",
      " ","d","a","t","e">>,
   missingDetails |->
      <<"T","h","e","r","e"," ","a","r","e"," ","m","i","s","s","i","n","g",
      " ","d","e","t","a","i","l","s"," ","i","n"," ","t","h","e"," ","a",
      "d","d","r","e","s","s">>,
   needMore |->
      <<"W","e"," ","n","e","e","d"," ","m","o","r","e"," ","i","n","f","o",
      "r","m","a","t","i","o","n">>,
   pleaseHold |->
      <<"P","l","e","a","s","e"," ","h","o","l","d",".">>]

\* the reference codes these utterances name
Code ==
  [caseNumber |->
      <<"A","B","C","1","2","3","4","5">>,
   referenceNumber |->
      <<"R","E","F","2","0","2","4","A">>,
   ticket |->
      <<"4","4","7","1">>]

\* what a human agent or the assistant may say on the call
ReferenceUtterances ==
  {Says.caseNumber, Says.referenceNumber, Says.ticket, Says.twoCodes,
   Says.claimReceived, Says.thanks}

\* transcripts of one or two entries as the call provider reports them
ReferenceTranscripts ==
  LET entries == [user : {"user", "assistant"}, text : ReferenceUtterances]
  IN  {<<a>> : a \in entries} \cup {<<a, b>> : a \in entries, b \in entries}

\* the utterances that name a reference, with the code each one names
NamedReferences ==
  {<<Says.caseNumber, Code.caseNumber>>,
   <<Says.referenceNumber, Code.referenceNumber>>,
   <<Says.ticket, Code.ticket>>}

FallbackUtterances ==
  {Says.needAccountNumber, Says.needMoreInformation, Says.cannotProceed,
   Says.missingDetails, Says.needMore, Says.pleaseHold}

\* transcripts of one or two entries, one in which a request has left the
\* window of the last three customer-service messages, and one in which an
\* old request has left it while the same request is made twice inside it
FallbackTranscripts ==
  LET entries == [speaker : {"customer_service", "ai_agent"},
                  text : FallbackUtterances]
      hold == [speaker |-> "customer_service", text |-> Says.pleaseHold]
  IN  {<<a>> : a \in entries} \cup {<<a, b>> : a \in entries, b \in entries}
        \cup {<<[speaker |-> "customer_service",
                 text |-> Says.needMoreInformation], hold, hold, hold>>}
        \cup {<<[speaker |-> "customer_service",
                 text |-> Says.cannotProceed],
                [speaker |-> "customer_service",
                 text |-> Says.needMoreInformation],
                [speaker |-> "ai_agent", text |-> Says.missingDetails],
                hold,
                [speaker |-> "customer_service",
                 text |-> Says.needMoreInformation]>>}

\* monitorCallProgress extracts the reference from a completed call
ExtractReferenceNumberCall ==
  /\ probe.op = "none"
  /\ \E transcript \in ReferenceTranscripts :
       probe' = [op |-> "extractReferenceNumber", transcript |-> transcript,
                 result |-> ExtractReferenceNumber(transcript)]
  /\ UNCHANGED <<dialogueVars, monitor, fallback, flows, fanout, callLog, processor>>

\* the call loop asks whether the agent needs customer information
DetectFallbackNeededCall ==
  /\ probe.op = "none"
  /\ \E transcript \in FallbackTranscripts :
       probe' = [op |-> "detectFallbackNeeded", transcript |-> transcript,
                 result |-> DetectFallbackNeeded(transcript)]
  /\ UNCHANGED <<dialogueVars, monitor, fallback, flows, fanout, callLog, processor>>

NextTranscript ==
  \/ ExtractReferenceNumberCall
  \/ DetectFallbackNeededCall

SpecTranscript == Init /\ [][NextTranscript]_vars

----------------------------------------------------------------------------
(* IVR navigation *)

\* issues of a complaint and the departments an IVR menu offers
IvrText ==
  [technicalSupport |->
      <<"t","e","c","h","n","i","c","a","l"," ","s","u","p","p","o","r","t">>,
   billingError |->
      <<"B","i","l","l","i","n","g"," ","e","r","r","o","r">>,
   cancelSubscription |->
      <<"C","a","n","c","e","l"," ","m","y"," ","s","u","b","s","c","r","i",
      "p","t","i","o","n">>,
   refund |->
      <<"R","e","f","u","n","d"," ","f","o","r"," ","a"," ","r","e","t","u",
      "r","n">>,
   lateDelivery |->
      <<"L","a","t","e"," ","d","e","l","i","v","e","r","y">>,
   sales |->
      <<"S","a","l","e","s">>,
   support |->
      <<"S","u","p","p","o","r","t">>,
   billing |->
      <<"B","i","l","l","i","n","g">>]

IssueInputs ==
  {IvrText.technicalSupport, IvrText.billingError, IvrText.cancelSubscription,
   IvrText.refund, IvrText.lateDelivery, <<>>}

Option(key, description) == [key |-> key, description |-> description]

\* one-level menus: the ivrNavigation test case (1 = Sales, 2 = Support),
\* the same menu with the keys exchanged, and a menu with three options
IvrStructureInputs ==
  {NoStructure,
   Structure(<<>>),
   Structure(<<[prompt |->
                  "Welcome to our service. Press 1 for sales, 2 for support.",
                options |-> <<Option("1", IvrText.sales),
                              Option("2", IvrText.support)>>]>>),
   Structure(<<[prompt |->
                  "Welcome to our service. Press 1 for support, 2 for sales.",
                options |-> <<Option("1", IvrText.support),
                              Option("2", IvrText.sales)>>]>>),
   Structure(<<[prompt |->
                  "Press 1 for sales, 2 for billing, 3 for support.",
                options |-> <<Option("1", IvrText.sales),
                              Option("2", IvrText.billing),
                              Option("3", IvrText.support)>>]>>)}

\* navigateToHuman determines the department and generates the plan
NavigateToHumanStart ==
  /\ probe.op = "none"
  /\ \E issue \in IssueInputs, ivrStructure \in IvrStructureInputs :
       probe' = NavigateToHuman(issue, ivrStructure)
  /\ UNCHANGED <<dialogueVars, monitor, fallback, flows, fanout, callLog, processor>>

\* navigateIVR executes the next step of the plan
NavigateIVRStep ==
  /\ probe.op = "navigateToHuman"
  /\ probe.result = "pending"
  /\ probe.executed < Len(probe.navigationPlan.steps)
  /\ probe' = ExecuteNavigationStep(probe)
  /\ UNCHANGED <<dialogueVars, monitor, fallback, flows, fanout, callLog, processor>>

\* navigateIVR returns true after the last step
NavigateIVRReturn ==
  /\ probe.op = "navigateToHuman"
  /\ probe.result = "pending"
  /\ probe.executed = Len(probe.navigationPlan.steps)
  /\ probe' = [probe EXCEPT !.result = "true"]
  /\ UNCHANGED <<dialogueVars, monitor, fallback, flows, fanout, callLog, processor>>

NextIvr ==
  \/ NavigateToHumanStart
  \/ NavigateIVRStep
  \/ NavigateIVRReturn

SpecIvr == Init /\ [][NextIvr]_vars

----------------------------------------------------------------------------
(* Repeated calls for one complaint *)

\* placeComplaintCall invocations followed for one complaint
MaxInvocations == 5

\* callOrchestrator.placeComplaintCall for the stored complaint
PlaceComplaintCallAgain ==
  /\ doc.exists
  /\ callLog.invocations < MaxInvocations
  /\ \E firstConnect \in DialInputs :
       \E out \in {PlaceComplaintCall(doc, firstConnect, 1)} :
         /\ doc' = out.doc
         /\ ret' = [NoReturn EXCEPT !.op = "placeComplaintCall",
                                    !.callPlaced = TRUE,
                                    !.status = out.result.status,
                                    !.nextSteps = out.result.nextSteps,
                                    !.dialAttempts = out.dialAttempts,
                                    !.retryCountBefore = doc.retryCount,
                                    !.dialNeverConnects = (firstConnect = 0)]
         /\ callLog' = Dialled(callLog, out.dialAttempts)
  /\ UNCHANGED <<originalContext, monitor, fallback, flows, probe, fanout,
                 processor>>

\* the server process is restarted: a new CallManager is constructed, the
\* stored complaint and the calls already made stay as they are
RestartProcess ==
  /\ doc.exists
  /\ ret # NoReturn
  /\ ret' = NoReturn
  /\ UNCHANGED <<doc, originalContext, auxVars>>

NextRetry ==
  \/ SubmitComplaint({5}, {NoReply}, PlainPolicyReplies, DialInputs)
  \/ PlaceComplaintCallAgain
  \/ RestartProcess

SpecRetry == Init /\ [][NextRetry]_vars

----------------------------------------------------------------------------
(* The command-line complaint processor *)

\* what the user types at the prompt
PromptAnswers == {<<"o", "k">>, <<"n", "o">>}

\* the continuation request replies CONTINUE or STOP, or fails
ProcessorPolicyReplies == {Reply(ContinueWord), Reply(TextStop), NoReply}

\* processComplaint(userId, complaintText, contactDetails) is called
ProcessComplaintStart ==
  /\ processor.pc = "idle"
  /\ processor' = [processor EXCEPT !.pc = "loop"]
  /\ UNCHANGED <<dialogueVars, monitor, fallback, flows, probe, fanout,
                 callLog>>

\* the loop condition is evaluated and the next question is generated
ProcessComplaintIterate ==
  /\ processor.pc = "loop"
  /\ \E policyReply \in ProcessorPolicyReplies,
        questionReply \in {NoReply, Reply(TextGoodQuestion)} :
       processor' = ProcessComplaintLoop(processor, policyReply, questionReply)
  /\ UNCHANGED <<dialogueVars, monitor, fallback, flows, probe, fanout,
                 callLog>>

\* the user answers the prompt
ProcessComplaintPrompted ==
  /\ processor.pc = "prompt"
  /\ \E answer \in PromptAnswers, updateOk \in BOOLEAN :
       processor' = ProcessComplaintAnswer(processor, answer, NoReply, updateOk)
  /\ UNCHANGED <<dialogueVars, monitor, fallback, flows, probe, fanout,
                 callLog>>

\* the call is placed
ProcessComplaintCalls ==
  /\ processor.pc = "call"
  /\ \E firstConnect \in {0, 1} :
       processor' = ProcessComplaintCall(processor, firstConnect)
  /\ UNCHANGED <<dialogueVars, monitor, fallback, flows, probe, fanout,
                 callLog>>

NextProcessor ==
  \/ ProcessComplaintStart
  \/ ProcessComplaintIterate
  \/ ProcessComplaintPrompted
  \/ ProcessComplaintCalls

SpecProcessor == Init /\ [][NextProcessor]_vars

----------------------------------------------------------------------------
(* Properties *)

\* C1: the stored history never holds more than one turn with an empty
\* answer, and askQuestions called while a turn is pending appends no turn
\* and returns the stored history
C1_PendingTurnExclusivity ==
  [][/\ Cardinality({i \in DOMAIN doc'.conversationHistory :
                       doc'.conversationHistory[i].answer = <<>>}) <= 1
     /\ (ret'.op = "askQuestions" /\ PendingCount(doc.conversationHistory) > 0)
          => /\ doc'.conversationHistory = doc.conversationHistory
             /\ ret'.conversationHistory = doc.conversationHistory
             /\ ~ret'.appended]_vars

\* C2: the number of turns with a non-empty answer never exceeds
\* maxQuestions, whatever the continuation policy replies
C2_HardCap ==
  Cardinality({i \in DOMAIN doc.conversationHistory :
                 doc.conversationHistory[i].answer # <<>>}) <= MaxQuestions

\* maxQuestions turns are answered and askQuestions was just called with the
\* policy replying "continue"
C2_AtCap ==
  /\ Cardinality({i \in DOMAIN doc.conversationHistory :
                    doc.conversationHistory[i].answer # <<>>}) = MaxQuestions
  /\ ret.op = "askQuestions"
  /\ ret.policyReply = Reply(TextContinueLower)

\* C3: whichever entry point places a call, the complaint has no pending
\* turn when the call is placed
C3_CallOnlyWhenNoPending == ret.callPlaced => ret.pendingAtCall = 0

\* C4: a dial that never connects, with the retry counter at 0, is tried
\* maxRetries + 1 times and the call result is then 'failed'
C4_RetryCap ==
  (ret.op = "newComplaint" /\ ret.callPlaced /\ ret.retryCountBefore = 0
     /\ ret.dialNeverConnects)
    => /\ ret.dialAttempts = MaxRetries + 1
       /\ ret.status = "failed"
       /\ doc.status = "failed"
       /\ doc.retryCount = MaxRetries

\* the call of a new complaint failed after three dial attempts
C4_ThreeAttempts ==
  /\ ret.op = "newComplaint"
  /\ ret.dialNeverConnects
  /\ ret.dialAttempts = 3
  /\ ret.status = "failed"

\* C5: the stored and the returned finalConfidence lie between 0 and 1
\* (0..10 tenths), also when the deltas sum above 1
C5_ConfidenceInUnitInterval ==
  /\ doc.exists => doc.finalConfidence \in 0..10
  /\ ret.finalConfidence # Undefined => ret.finalConfidence \in 0..10

\* the intake confidence plus the deltas of the answered turns exceeds 1 and
\* the stored finalConfidence is 1
C5_Clamped ==
  /\ doc.exists
  /\ originalContext.confidence
       + SumDeltas(SelectSeq(doc.conversationHistory, IsAnswered)) > 10
  /\ doc.finalConfidence = 10

\* C6: the stored finalConfidence is min(1, confidence of the original
\* ComplaintContext + the deltas of the answered turns, each counted once)
C6_ConfidenceIsInitialPlusDeltas ==
  doc.exists =>
    doc.finalConfidence =
      Min(10, originalContext.confidence
                + SumDeltas(SelectSeq(doc.conversationHistory, IsAnswered)))

\* C7: no more than maxQuestions questions are ever asked; askQuestions
\* called with every turn answered either appends a question or reports the
\* flow complete, and with maxQuestions answered turns it appends nothing and
\* reports the flow complete
C7_NeverStalls ==
  [][/\ Len(doc'.conversationHistory) <= MaxQuestions
     /\ (/\ ret'.op = "askQuestions"
         /\ \A i \in DOMAIN doc.conversationHistory :
              Trim(doc.conversationHistory[i].answer) # <<>>)
          => /\ ret'.appended \/ (ret'.complete /\ doc'.questionFlowCompleted)
             /\ Len(doc.conversationHistory) >= MaxQuestions
                  => /\ ~ret'.appended
                     /\ ret'.complete
                     /\ doc'.questionFlowCompleted
                     /\ doc'.conversationHistory = doc.conversationHistory]_vars

\* askQuestions, called with maxQuestions answered turns and the policy
\* replying "continue", reported the flow complete
C7_CompleteAtCap ==
  /\ ret.op = "askQuestions"
  /\ Len(doc.conversationHistory) = MaxQuestions
  /\ \A i \in DOMAIN doc.conversationHistory :
       Trim(doc.conversationHistory[i].answer) # <<>>
  /\ ret.policyReply = Reply(TextContinueLower)
  /\ ~ret.appended
  /\ ret.complete
  /\ doc.questionFlowCompleted

\* C8: a turn is appended only when the policy replied "continue"; when it
\* replied "stop" or something unusable, or the request failed, askQuestions
\* (with no pending turn) appends nothing and reports the flow complete
C8_FailClosed ==
  [][/\ ret'.appended => ret'.policyReply = Reply(TextContinueLower)
     /\ (/\ ret'.op \in {"askQuestions", "newComplaint"}
         /\ ret'.policyReply \in
              {Reply(TextStop), Reply(TextContinueDot), NoReply}
         /\ \A i \in DOMAIN doc.conversationHistory :
              Trim(doc.conversationHistory[i].answer) # <<>>)
          => /\ ~ret'.appended
             /\ doc'.conversationHistory = doc.conversationHistory
             /\ ret'.complete
             /\ doc'.questionFlowCompleted]_vars

\* the policy was asked, its request failed, and askQuestions stopped
C8_StoppedOnFailure ==
  /\ ret.op = "askQuestions"
  /\ ret.decision = "stop"
  /\ ret.policyReply = NoReply
  /\ ~ret.appended
  /\ ret.complete

\* C9: processAnswer with a question id that no turn of the complaint has
\* fails with an error and leaves the stored complaint as it was
C9_UnknownQuestionId ==
  [][(/\ ret'.op \in {"processAnswer", "followup"}
      /\ ~\E i \in DOMAIN doc.conversationHistory :
            doc.conversationHistory[i].id = ret'.questionId)
       => (ret'.error # "" /\ doc' = doc)]_vars

\* processAnswer failed on a complaint that has turns
C9_QuestionNotFound ==
  /\ ret.op = "processAnswer"
  /\ ret.error = "QuestionNotFound"
  /\ doc.conversationHistory # <<>>

\* C10: after a successful processAnswer the stored turn with that id holds
\* exactly the submitted answer and a delta of 0.2 if the extractor returned
\* a field, else 0.1; a failed or unparseable extraction gives an empty map
\* and no error
C10_AnswerRoundTrip ==
  /\ (ret.op \in {"processAnswer", "followup"} /\ ret.error = "")
       => \E i \in DOMAIN doc.conversationHistory :
            /\ doc.conversationHistory[i].id = ret.questionId
            /\ doc.conversationHistory[i].answer = ret.answer
            /\ doc.conversationHistory[i].extractedInfo = ret.extractedInfo
            /\ doc.conversationHistory[i].confidenceDelta =
                 (IF DOMAIN ret.extractedInfo # {} THEN 2 ELSE 1)
            /\ ret.extractReply \in {NoReply, Reply(<<LBrace, Prose, RBrace>>)}
                 => doc.conversationHistory[i].confidenceDelta = 1
  /\ (ret.op \in {"processAnswer", "followup"} /\ ret.error # "")
       => ~\E i \in DOMAIN doc.conversationHistory :
             doc.conversationHistory[i].id = ret.questionId

\* an answer was stored although its extraction reply could not be parsed
C10_UnparseableExtraction ==
  /\ ret.op = "processAnswer"
  /\ ret.error = ""
  /\ ret.extractReply = Reply(<<LBrace, Prose, RBrace>>)
  /\ \E i \in DOMAIN doc.conversationHistory :
       /\ doc.conversationHistory[i].id = ret.questionId
       /\ doc.conversationHistory[i].answer = <<"o", "k", " ">>
       /\ doc.conversationHistory[i].confidenceDelta = 1

C12_TimeoutDistinctFromFailedCall ==
  /\ monitor.posts <= 1
  /\ monitor.outcome = "timeout"
       => /\ monitor.result.status = "failed"
          /\ monitor.result.error = CallText.monitoringTimeout
  /\ monitor.outcome = "callStatus"
       => /\ monitor.result.status = "failed"
          /\ monitor.result.error # CallText.monitoringTimeout

\* initiateCall returned after a monitoring timeout
C12_TimeoutReturned ==
  /\ monitor.phase = "returned"
  /\ monitor.outcome = "timeout"
  /\ monitor.posts = 1

\* the TwilioController operations of invocation e, in completion order
EpisodeLog(e) ==
  LET Mine(entry) == entry.episode = e
  IN  SelectSeq(fallback.log, Mine)

\* C13: each handleFallback performs hold, then the side call, then resume,
\* in that order; when the hold fails it throws 'Failed to place call on
\* hold' and neither a side call nor a resume is made
C13_HoldThenSideCallThenResume ==
  \A e \in Episodes :
    /\ [i \in DOMAIN EpisodeLog(e) |-> EpisodeLog(e)[i].op]
         \in {<<>>, <<"hold">>, <<"hold", "sideCall">>,
              <<"hold", "sideCall", "resume">>}
    /\ (EpisodeLog(e) # <<>> /\ ~EpisodeLog(e)[1].ok)
         => /\ Len(EpisodeLog(e)) = 1
            /\ fallback.episode[e].pc = "thrown"
            /\ fallback.episode[e].error = FallbackText.fallbackFailed \o FallbackText.holdFailed

\* one invocation went through hold, side call and resume and returned,
\* the other one failed to hold and threw
C13_OneReturnedOneHoldFailed ==
  /\ fallback.episode[1].pc = "returned"
  /\ Len(EpisodeLog(1)) = 3
  /\ fallback.episode[2].pc = "thrown"
  /\ EpisodeLog(2) = <<[op |-> "hold", episode |-> 2, ok |-> FALSE]>>

\* C14: a handleFallback that held the company call has attempted a resume
\* by the time it returns or throws, and a failed resume is thrown as
\* 'Failed to resume call after fallback'
C14_ResumeBeforeLeaving ==
  \A e \in Episodes :
    (/\ fallback.episode[e].pc \in {"returned", "thrown"}
     /\ EpisodeLog(e) # <<>>
     /\ EpisodeLog(e)[1].ok)
      => /\ Len(EpisodeLog(e)) = 3
         /\ EpisodeLog(e)[3].op = "resume"
         /\ ~EpisodeLog(e)[3].ok
              => /\ fallback.episode[e].pc = "thrown"
                 /\ fallback.episode[e].error
                      = FallbackText.fallbackFailed \o FallbackText.resumeFailed

\* C15: after an invocation's successful hold, no other invocation for the
\* same callSid completes a hold, a side call or a resume until the first
\* one's resume
C15_EpisodesDoNotOverlap ==
  \A i \in DOMAIN fallback.log : \A j \in DOMAIN fallback.log :
    (/\ i < j
     /\ fallback.log[i].op = "hold"
     /\ fallback.log[i].ok
     /\ fallback.log[j].episode # fallback.log[i].episode)
      => \E k \in DOMAIN fallback.log :
           /\ i < k
           /\ k < j
           /\ fallback.log[k].op = "resume"
           /\ fallback.log[k].episode = fallback.log[i].episode

\* C16: no update of one complaint is lost when follow-up requests
\* interleave: a write never removes a turn from the stored history and
\* never turns an answered turn into a pending one
C16_NoLostUpdate ==
  [][doc.exists =>
       /\ Len(doc'.conversationHistory) >= Len(doc.conversationHistory)
       /\ \A i \in DOMAIN doc.conversationHistory :
            IsAnswered(doc.conversationHistory[i])
              => IsAnswered(doc'.conversationHistory[i])]_vars

\* C17: /execute-both starts the call and the email together, the settling
\* of one leaves the other as it is, and the response is sent only when
\* both have settled, carrying each one's own result
C17_FanOutFanIn ==
  [][/\ (fanout.pc # "running" /\ fanout'.pc = "running")
          => (fanout'.call = "pending" /\ fanout'.email = "pending")
     /\ (fanout.pc = "running" /\ fanout'.call # fanout.call)
          => fanout'.email = fanout.email
     /\ (fanout.pc = "running" /\ fanout'.email # fanout.email)
          => fanout'.call = fanout.call
     /\ (fanout.pc = "running" /\ fanout'.pc = "responded")
          => /\ fanout.call # "pending"
             /\ fanout.email # "pending"
             /\ ret'.callPlaced
             /\ ret'.status = "failed" <=> fanout.call = "failed"
             /\ ret'.emailStatus = "sent" <=> fanout.email = "fulfilled"]_vars

\* the call failed, the email was sent, and the response carries both
C17_CallFailedEmailSent ==
  /\ fanout.pc = "responded"
  /\ fanout.call = "failed"
  /\ fanout.email = "fulfilled"
  /\ ret.op = "executeBoth"
  /\ ret.status = "failed"
  /\ ret.emailStatus = "sent"

\* C18: when every dial of placeComplaintCall fails, with retries left or
\* not, the CallResult it returns has a non-empty nextSteps list
C18_FailedCallHasNextSteps ==
  (ret.op = "newComplaint" /\ ret.callPlaced /\ ret.status = "failed")
    => ret.nextSteps # <<>>

\* C19: for a transcript of one human utterance that names a reference,
\* among them 'Your case number is ABC12345, thank you',
\* extractReferenceNumber returns the code the utterance names
C19_ReferenceIsTheCode ==
  \A named \in NamedReferences :
    (/\ probe.op = "extractReferenceNumber"
     /\ probe.transcript = <<[user |-> "user", text |-> named[1]]>>)
      => probe.result = named[2]

\* C20: when the last customer-service utterance is 'I need the account
\* number to proceed.', detectFallbackNeeded returns a non-empty list
C20_InformationRequestDetected ==
  (/\ probe.op = "detectFallbackNeeded"
   /\ probe.transcript[Len(probe.transcript)]
        = [speaker |-> "customer_service", text |-> Says.needAccountNumber])
    => probe.result # <<>>

\* C21: when one of the last three customer-service utterances contains a
\* configured trigger phrase and mentions 'account', detectFallbackNeeded's
\* result includes 'account_number'; every category of the result comes
\* from a triggering utterance among those last three, so older utterances
\* contribute nothing; and no category occurs twice
C21_TriggerClassification ==
  probe.op = "detectFallbackNeeded" =>
    LET FromCustomerService(entry) == entry.speaker = "customer_service"
        spoken == SelectSeq(probe.transcript, FromCustomerService)
        recent == {i \in DOMAIN spoken : i > Len(spoken) - 3}
        HasTrigger(text) ==
          \E t \in DOMAIN FallbackTriggers :
            Includes(ToLowerCase(text), ToLowerCase(FallbackTriggers[t]))
        result == probe.result
    IN  /\ \A i \in recent :
             (/\ HasTrigger(spoken[i].text)
              /\ Includes(ToLowerCase(spoken[i].text), FieldWord.account))
               => \E k \in DOMAIN result : result[k] = "account_number"
        /\ \A k \in DOMAIN result :
             \E i \in recent :
               /\ HasTrigger(spoken[i].text)
               /\ MissingField(ToLowerCase(spoken[i].text)) = result[k]
        /\ \A j, k \in DOMAIN result : result[j] = result[k] => j = k

\* an order request has left the window, the account request is made twice
\* inside it, and the result is the account number alone
C21_AccountOnceOrderTooOld ==
  /\ probe.op = "detectFallbackNeeded"
  /\ Len(probe.transcript) = 5
  /\ probe.transcript[1].text = Says.cannotProceed
  /\ probe.transcript[5].text = Says.needMoreInformation
  /\ probe.result = <<"account_number">>

\* C22: with a menu structure that has an option for the target department
\* the plan waits for the greeting and the first key navigateIVR sends is
\* that option's key, 2 for a technical issue and '1 = Sales, 2 = Support';
\* with no structure the plan is wait for greeting, press 0, wait for operator
C22_PlanFollowsStructure ==
  (probe.op = "navigateToHuman" /\ probe.result = "true") =>
    LET steps == probe.navigationPlan.steps
        nodes == probe.ivrStructure.nodes
        known == probe.ivrStructure.defined /\ Len(nodes) > 0
        Serves(option) ==
          \/ /\ option.description = IvrText.support
             /\ probe.targetDepartment = "technical_support"
          \/ /\ option.description = IvrText.billing
             /\ probe.targetDepartment = "billing"
        keys == IF known
                  THEN {nodes[1].options[i].key :
                          i \in {j \in DOMAIN nodes[1].options :
                                   Serves(nodes[1].options[j])}}
                  ELSE {}
        Does(i) == <<steps[i].action, steps[i].value>>
    IN  /\ (known /\ keys # {}) =>
             /\ Does(1) = <<"wait", "greeting">>
             /\ probe.sent # <<>>
             /\ probe.sent[1] \in keys
        /\ ~known =>
             /\ Len(steps) = 3
             /\ Does(1) = <<"wait", "greeting">>
             /\ Does(2) = <<"press", "0">>
             /\ Does(3) = <<"wait", "operator">>
             /\ probe.sent = <<"0">>

\* C23: BlandAIClient.placeCall issues its HTTP request only for a number in
\* E.164 format, a + followed by up to fifteen digits and nothing else: when
\* initiate-call or execute-both has had the request made, the number they
\* passed to placeCall has that format
C23_RequestOnlyForE164 ==
  (ret.op \in {"initiateCall", "executeBoth"} /\ ret.callPlaced) =>
    LET phoneNumber == ToE164(doc.contactDetails.phoneNumbers[1])
    IN  /\ Len(phoneNumber) \in 2..16
        /\ phoneNumber[1] = "+"
        /\ \A i \in 2..Len(phoneNumber) : phoneNumber[i] \in Digits
        /\ phoneNumber[2] # "0"

\* C24: over all placeComplaintCall invocations made one after the other
\* for a complaint, process restarts in between included, the dials beyond
\* each invocation's first one number at most maxRetries, and the stored
\* retryCount never exceeds maxRetries
C24_RetriesBoundedAcrossInvocations ==
  /\ callLog.created - callLog.invocations <= MaxRetries
  /\ doc.retryCount <= MaxRetries

\* the retries are used up, and a later invocation whose dial fails makes
\* that one dial only
C24_NoRetryLeft ==
  /\ callLog.invocations >= 2
  /\ callLog.created - callLog.invocations = MaxRetries
  /\ doc.retryCount = MaxRetries
  /\ ret.op = "placeComplaintCall"
  /\ ret.retryCountBefore = MaxRetries
  /\ ret.dialNeverConnects
  /\ ret.dialAttempts = 1

\* C25: every question stored as a turn of the conversation is between 10
\* and 150 characters long and contains none of the vague phrases 'more
\* details', 'clarify', 'can you tell me' and 'additional information'
C25_StoredQuestionsPassQualityCheck ==
  \A i \in DOMAIN doc.conversationHistory :
    LET question == doc.conversationHistory[i].question
    IN  /\ Len(question) >= MinQuestionLength
        /\ Len(question) <= MaxQuestionLength
        /\ \A phrase \in VaguePhrases :
             ~Includes(ToLowerCase(question), phrase)

\* C26: a turn that has a non-empty answer (one that is more than
\* whitespace) keeps its answer, extractedInfo and confidenceDelta in every
\* later step, and every stored turn stays in the history at its position
C26_TurnAnsweredOnce ==
  [][\A i \in DOMAIN doc.conversationHistory :
       /\ i \in DOMAIN doc'.conversationHistory
       /\ doc'.conversationHistory[i].id = doc.conversationHistory[i].id
       /\ Trim(doc.conversationHistory[i].answer) # <<>> =>
            /\ doc'.conversationHistory[i].answer
                 = doc.conversationHistory[i].answer
            /\ doc'.conversationHistory[i].extractedInfo
                 = doc.conversationHistory[i].extractedInfo
            /\ doc'.conversationHistory[i].confidenceDelta
                 = doc.conversationHistory[i].confidenceDelta]_vars

\* C27: a step of the follow-up branch of processUnifiedComplaint places no
\* company call and leaves the complaint's status, next steps, call status
\* and retry count as they were, also when it reports the conversation
\* complete
C27_FollowupPlacesNoCall ==
  [][(ret'.op = "followup" /\ <<doc, ret>>' # <<doc, ret>>) =>
       /\ ~ret'.callPlaced
       /\ ret'.dialAttempts = 0
       /\ callLog' = callLog
       /\ doc'.status = doc.status
       /\ doc'.nextSteps = doc.nextSteps
       /\ doc'.callStatus = doc.callStatus
       /\ doc'.retryCount = doc.retryCount]_vars

\* a follow-up answer completed the conversation and no call was placed
C27_CompleteWithoutCall ==
  /\ ret.op = "followup"
  /\ ret.error = ""
  /\ ret.complete
  /\ ~ret.callPlaced
  /\ doc.questionFlowCompleted
  /\ doc.status = "processing"
  /\ callLog = NoCalls

\* C28: whenever processUnifiedComplaint has answered a request without an
\* error, whitespace-only answers included, it reports the conversation
\* complete (or has placed the call) exactly when the stored
\* questionFlowCompleted flag is true
C28_FacadeAgreesWithEngine ==
  (ret.op \in {"newComplaint", "followup"} /\ ret.error = "") =>
    ((ret.complete \/ ret.callPlaced) <=> doc.questionFlowCompleted)

\* C29: processComplaint puts a question to the user only when
\* shouldAskMoreQuestions has decided to continue, and it asks at most
\* maxQuestions questions before it places the call
C29_LoopHonoursPolicy ==
  /\ processor.pc = "prompt" => processor.decision = "continue"
  /\ processor.asked <= MaxQuestions
  /\ Len(processor.context.conversationHistory) <= MaxQuestions

\* C30: whatever the timing of the status responses, monitorCallProgress
\* sends at most 400 status requests, and once its promise is settled the
\* outcome and the result stay as they are and no further request is sent
C30_PollsBoundedAndSettledOnce ==
  /\ [](monitor.checkCount <= MaxChecks)
  /\ [][monitor.phase = "returned" =>
          /\ monitor'.phase = "returned"
          /\ monitor'.outcome = monitor.outcome
          /\ monitor'.result = monitor.result
          /\ monitor'.checkCount = monitor.checkCount]_vars

====
